---- MODULE Spec2Model ----
(***************************************************************************)
(* P2P file sharing network: the tracker's registry and file index        *)
(* (RegistryService, DirectoryGrpcService) and the chunked transfer       *)
(* protocol between peers (PeerGrpcService, PeerGrpcClient).              *)
(*                                                                         *)
(* Node.js runs every handler to completion up to its next `await`; the   *)
(* model gives each handler one action per synchronous segment.           *)
(***************************************************************************)
EXTENDS Integers, Sequences, FiniteSets, TLC

(***************************************************************************)
(* Bounds of the model.                                                    *)
(***************************************************************************)
\* longest file list a registration request carries
MaxFiles == 2
\* registry calls that may be in flight at the same time
MaxCalls == 2
\* registerPeer/unregisterPeer calls made in one run
MaxOps == 3
\* longest file transferred
MaxFileLen == 2
\* chunkSize of the transfers, scaled down from 64 KiB
ChunkSize == 1
\* longest file and largest chunk_size of the TransferFile requests written out
MaxTransferLen == 4
MaxChunkSize == 3
\* the responses of one transferFile call that are recorded
MaxResponses == 160
\* calls of the bootstrap service that may be in progress at the same time
MaxBootCalls == 2
\* ticks of the periodic update that find the peer unregistered
MaxTicks == 6
\* delays of retryConnection recorded
MaxWaits == 6
\* highest failures count of a connection
MaxFailures == 4
\* calls of startPeriodicUpdates / startPeriodicChecks per service
MaxStarts == 2
\* restarts of the directory server on the registry file of its previous run
MaxRestarts == 1
\* ticks of the interval timers per service
MaxTimerTicks == 2

PeerIds == {"p1", "p2"}
Files == {"x.txt", "y.txt"}
Ip == "10.0.0.1"
RestPort == 9001

\* every sequence over S of length at most n
SeqsUpTo(S, n) == UNION {[1..k -> S] : k \in 0..n}
FileLists == SeqsUpTo(Files, MaxFiles)
Slots == 1..MaxCalls

VARIABLES
    \* RegistryService
    peers,      \* this.peers: Map peerId -> peerInfo
    fileIndex,  \* this.fileIndex: Map filename -> [{peerId, ip, restPort}]
    disk,       \* content of registryFile: the last snapshot written
    calls,      \* the registerPeer/unregisterPeer calls in flight, per slot
    running,    \* the call that holds the thread (0: the event loop is free)
    lin,        \* the registry as the calls, applied whole in start order, leave it
    ops,        \* registerPeer/unregisterPeer calls made so far
    saveErr     \* some saveRegistry() of this run has failed

regVars == <<peers, fileIndex, disk, calls, running, lin, ops, saveErr>>

VARIABLES
    \* DirectoryGrpcService
    gpeers,     \* this.peers: Map peer_id -> peerData
    gfiles,     \* this.files: Map filename -> [peer_id]
    glast       \* the last call served and what it answered

dirVars == <<gpeers, gfiles, glast>>

VARIABLES
    \* PeerGrpcService.receiveFile: one call, its stream and the shared directory
    rxStream,   \* what the sender of this call sends: source bytes, announced size and checksum
    wire,       \* the messages of the stream not yet delivered to the handlers
    streamState,\* "none", "open", "ended" ('end'), "errored" ('error') or "cancelled"
    rx,         \* the locals of receiveFile: fileInfo, fileHandle, receivedBytes, filePath
    openSt,     \* the fs.open of the data handler: none, queued, effected, resumed
    rxWrites,   \* the fileHandle.write calls issued and not completed
    endPc,      \* where the 'end' handler stands
    errPc,      \* where the 'error' handler stands
    reply,      \* what callback(...) answered first
    fault,      \* a stream error or a file-system failure has occurred in this call
    dest        \* the file at filePath: whether it exists, its bytes, whether fileHandle still names it

rxVars == <<rxStream, wire, streamState, rx, openSt, rxWrites, endPc, errPc, reply, fault, dest>>

VARIABLES
    \* PeerGrpcClient.downloadFile: one TransferFile call and the file at savePath
    dlSource,   \* what the serving peer streams: the file's bytes, and whether a chunk is stale
    dlWire,     \* the responses of the stream not yet delivered to the handlers
    dlState,    \* "none", "open", "ended" or "errored"
    dl,         \* the locals of downloadFile: fileHandle, receivedBytes, expectedChecksum
    dlTasks,    \* the 'data' handlers suspended at an await
    dlEndPc,    \* where the 'end' handler stands
    dlErrPc,    \* where the 'error' handler stands
    outcome,    \* the promise: pending, resolved or rejected
    dlVerified, \* the end handler has compared the checksums and found them equal
    saved       \* the file at savePath

dlVars == <<dlSource, dlWire, dlState, dl, dlTasks, dlEndPc, dlErrPc, outcome, dlVerified, saved>>

VARIABLES
    \* PeerGrpcService.transferFile: one TransferFile call
    tf,         \* the request and the locals of the call: fileSize, currentOffset, where it stands
    tfOut       \* the responses written to the stream so far

tfVars == <<tf, tfOut>>

VARIABLES
    \* withRetry of PeerGrpcClient and DirectoryGrpcClient: one call
    rt,         \* the client, the attempt in progress, lastError, where the loop stands
    rtErrors,   \* the errors of the attempts that failed, in order
    rtWaits     \* the delays awaited between attempts, in order (ms)

rtVars == <<rt, rtErrors, rtWaits>>

VARIABLES
    \* BootstrapService of a peer, started by P2PServer.start
    boot,          \* this.isRegistered, this.retryCount, this.updateInterval
    bcalls,        \* the calls of the service in progress, one per slot
    phase,         \* P2PServer.start: "init", "connecting" (auto-connect running), "started"
    trackerUp,     \* whether the directory server answers
    wasUp,         \* whether the directory server has answered at any time so far
    bwaits,        \* the delays awaited by retryConnection, in order (ms)
    connects,      \* connectToNetwork calls made so far, by who made them
    registrations  \* registration requests sent by connectToNetwork so far

bootVars == <<boot, bcalls, phase, trackerUp, wasUp, bwaits, connects, registrations>>

VARIABLES
    \* HealthCheckService of a peer
    hcConfig,      \* this.config: whether friendPrimary and friendBackup are set
    healthStatus,  \* this.healthStatus: isHealthy and the cached check results
    hcRun,         \* the performHealthCheck in progress and its four checks
    hcLast         \* what the last completed performHealthCheck returned

hcVars == <<hcConfig, healthStatus, hcRun, hcLast>>

VARIABLES
    \* ConnectionManager
    connectionStates, \* this.connectionStates: name -> {state, failures}
    channel,          \* the connectivity state of each connection's channel
    broken,           \* the connections whose client.getChannel() throws
    cmLast,           \* the last performHealthChecks: failures seen, reconnections requested
    watch             \* the watchConnectivityState of each connection: "none", "armed",
                      \* "triggered" (its callback is due), "gap" (the timeout before the
                      \* next watch), "dead" (the deadline passed, no further watch)

cmVars == <<connectionStates, channel, broken, cmLast, watch>>

VARIABLES
    \* the periodic timers of a peer and its shutdown (P2PServer, BootstrapService,
    \* HealthCheckService)
    lphase,     \* P2PServer.start: "init", "connecting" (auto-connect running), "started"
    timer,      \* per service: the handle kept (updateInterval / checkInterval, 0 = null),
                \* the intervals alive, starts and ticks so far, whether stop returned last
    lreg,       \* this.isRegistered, whether the tracker holds the peer, where shutdown stands
    ucalls,     \* the updateRegistration calls started by ticks, by number
    net         \* the requests to the tracker in flight
lifeVars == <<lphase, timer, lreg, ucalls, net>>

VARIABLES
    \* the loadRegistry() started by the constructor of RegistryService
    ld          \* where it stands, what readFile returned, whether the file was there
loadVars == <<ld>>

VARIABLES
    \* UploadService of a peer
    sdir,       \* the shared directory: path -> whether a file is there and its content
    up          \* the uploadFile call in progress: its request, where it stands, its result
upVars == <<sdir, up>>

VARIABLES
    \* two ReceiveFile calls served by one PeerGrpcService
    rs,         \* per call: the stream of its sender and the locals of receiveFile
    rdir        \* the shared directory: path -> file
sessVars == <<rs, rdir>>

peerVars == <<bootVars, hcVars, cmVars, lifeVars, loadVars, upVars, sessVars>>

vars == <<regVars, dirVars, rxVars, dlVars, tfVars, rtVars, peerVars>>

\* a step of one component leaves the others alone
RegFrame == UNCHANGED <<dirVars, rxVars, dlVars, tfVars, rtVars, peerVars>>
DirFrame == UNCHANGED <<regVars, rxVars, dlVars, tfVars, rtVars, peerVars>>
RxFrame == UNCHANGED <<regVars, dirVars, dlVars, tfVars, rtVars, peerVars>>
DlFrame == UNCHANGED <<regVars, dirVars, rxVars, tfVars, rtVars, peerVars>>
TfFrame == UNCHANGED <<regVars, dirVars, rxVars, dlVars, rtVars, peerVars>>
RtFrame == UNCHANGED <<regVars, dirVars, rxVars, dlVars, tfVars, peerVars>>
BootFrame ==
    UNCHANGED <<regVars, dirVars, rxVars, dlVars, tfVars, rtVars, hcVars, cmVars, lifeVars, loadVars, upVars, sessVars>>
HcFrame ==
    UNCHANGED <<regVars, dirVars, rxVars, dlVars, tfVars, rtVars, bootVars, cmVars, lifeVars, loadVars, upVars, sessVars>>
CmFrame ==
    UNCHANGED <<regVars, dirVars, rxVars, dlVars, tfVars, rtVars, bootVars, hcVars, lifeVars, loadVars, upVars, sessVars>>

(***************************************************************************)
(* JavaScript Map and Array helpers.                                       *)
(***************************************************************************)
MapHas(m, k) == k \in DOMAIN m
MapGetOr(m, k, d) == IF k \in DOMAIN m THEN m[k] ELSE d
MapSet(m, k, v) == [x \in (DOMAIN m) \cup {k} |-> IF x = k THEN v ELSE m[x]]
MapDelete(m, k) == [x \in (DOMAIN m) \ {k} |-> m[x]]
EmptyMap == [x \in {} |-> 0]

\* !v of JavaScript: for a string of a request, for a number of a request
FalsyStr(v) == v = ""
FalsyNum(v) == v = 0

\* filePeers.filter(p => p.peerId !== peerId)
FilterOutPeer(filePeers, peerId) == SelectSeq(filePeers, LAMBDA e : e.peerId # peerId)
\* the existence check left out: every listed file is pushed
HasPeerUnchecked(filePeers, peerId) == FALSE
\* filePeers.find(p => p.peerId === peerId) is defined
HasPeer(filePeers, peerId) == \E i \in 1..Len(filePeers) : filePeers[i].peerId = peerId

(***************************************************************************)
(* RegistryService.updateFileIndex                                         *)
(***************************************************************************)
\* the loop "Remove old files from index" (also the loop of unregisterPeer)
RECURSIVE RemoveFromIndex(_, _, _)
RemoveFromIndex(idx, peerId, files) ==
    IF files = <<>> THEN idx
    ELSE LET filePeers == MapGetOr(idx, Head(files), <<>>)
             updatedPeers == FilterOutPeer(filePeers, peerId)
             idx2 == IF Len(updatedPeers) = 0
                     THEN MapDelete(idx, Head(files))
                     ELSE MapSet(idx, Head(files), updatedPeers)
         IN  RemoveFromIndex(idx2, peerId, Tail(files))

\* the loop "Add new files to index"
RECURSIVE AddToIndex(_, _, _)
AddToIndex(idx, peer, files) ==
    IF files = <<>> THEN idx
    ELSE LET filePeers == MapGetOr(idx, Head(files), <<>>)
             idx2 == IF ~HasPeer(filePeers, peer.peerId)
                     THEN MapSet(idx, Head(files),
                                 Append(filePeers, [peerId |-> peer.peerId, ip |-> peer.ip,
                                                    restPort |-> peer.restPort]))
                     ELSE idx
         IN  AddToIndex(idx2, peer, Tail(files))

\* the file list whose entries updateFileIndex removes first: peer.files, read
\* from the record registerPeer has just stored
OldFilesOf(ps, peerId) == ps[peerId].files

\* updateFileIndex(peerId, files) on registry st = [peers, fileIndex]
UpdateFileIndex(st, peerId, files) ==
    IF ~MapHas(st.peers, peerId) THEN st
    ELSE LET peer == st.peers[peerId]
             removed == RemoveFromIndex(st.fileIndex, peerId, OldFilesOf(st.peers, peerId))
             added == AddToIndex(removed, peer, files)
         IN  [peers |-> MapSet(st.peers, peerId, [peer EXCEPT !.files = files]),
              fileIndex |-> added]

(***************************************************************************)
(* RegistryService.registerPeer / unregisterPeer, by synchronous segment.  *)
(***************************************************************************)
ValidRequests == [peerId : PeerIds, ip : {Ip}, restPort : {RestPort}, files : FileLists]
\* requests with a required field absent
InvalidRequests ==
    {[peerId |-> "", ip |-> Ip, restPort |-> RestPort, files |-> <<>>],
     [peerId |-> "p1", ip |-> "", restPort |-> RestPort, files |-> <<"x.txt">>],
     [peerId |-> "p1", ip |-> Ip, restPort |-> 0, files |-> <<"x.txt">>]}
Requests == ValidRequests \cup InvalidRequests

\* a check that forgets restPort
ValidRequestNoPort(peerData) ==
    ~(FalsyStr(peerData.peerId) \/ FalsyStr(peerData.ip))

ValidRequest(peerData) ==
    ~(FalsyStr(peerData.peerId) \/ FalsyStr(peerData.ip) \/ FalsyNum(peerData.restPort))

PeerInfo(peerData) ==
    [peerId |-> peerData.peerId, ip |-> peerData.ip, restPort |-> peerData.restPort,
     files |-> peerData.files, status |-> "online"]

\* this.peers.set(peerId, peerInfo)
SetPeer(st, peerData) ==
    [st EXCEPT !.peers = MapSet(st.peers, peerData.peerId, PeerInfo(peerData))]

\* the index loop of unregisterPeer
UnregisterIndex(st, peerId) ==
    [st EXCEPT !.fileIndex = RemoveFromIndex(st.fileIndex, peerId, st.peers[peerId].files)]

\* this.peers.delete(peerId)
DeletePeer(st, peerId) == [st EXCEPT !.peers = MapDelete(st.peers, peerId)]

\* a whole call, as one step
RegisterWhole(st, peerData) == UpdateFileIndex(SetPeer(st, peerData), peerData.peerId, peerData.files)
UnregisterWhole(st, peerId) == DeletePeer(UnregisterIndex(st, peerId), peerId)

Mem == [peers |-> peers, fileIndex |-> fileIndex]
EmptyRegistry == [peers |-> EmptyMap, fileIndex |-> EmptyMap]

NoSnap == [peers |-> EmptyMap, fileIndex |-> EmptyMap]
\* `same`: the call registers the file list its peer's record already held
IdleCall == [pc |-> "idle", op |-> "none", peerId |-> "", files |-> <<>>,
             snap |-> NoSnap, result |-> "none", same |-> FALSE]

\* a catch that would undo the call's change of this.peers
CatchErrorRollback(st, call) ==
    IF call.op = "register" /\ MapHas(st.peers, call.peerId)
    THEN [st EXCEPT !.peers = MapDelete(st.peers, call.peerId)]
    ELSE st
\* the catch of registerPeer / unregisterPeer: the error is logged and returned
\* as {success: false}; the registry in memory is left as it is
CatchError(st, call) == st

\* res.status(...) of POST /register and DELETE /unregister/:peerId
StatusCode(op, result) ==
    IF op = "register" THEN (IF result = "ok" THEN 201 ELSE 400)
    ELSE (IF result = "ok" THEN 200 ELSE 404)

\* an await between this.peers.set / the index loop and the rest of the update
AwaitPointsMidUpdate ==
    {"reg_update", "unreg_delete", "await_update", "save_mkdir", "save_write", "returned"}
\* the places where a call is suspended in an `await` and other work proceeds
AwaitPoints == {"await_update", "save_mkdir", "save_write", "returned"}

\* who holds the thread once call c has reached pc
HolderAt(c, pc) == IF pc \in AwaitPoints THEN 0 ELSE c

\* call c may take its next segment: it holds the thread, or the loop is free
\* and c waits on a promise
\* a new call takes the first free slot
FreeSlot(c) ==
    /\ calls[c].pc = "idle"
    /\ \A d \in Slots : d < c => calls[d].pc # "idle"

MayStep(c) ==
    \/ running = c
    \/ running = 0 /\ calls[c].pc \in AwaitPoints

Goto(c, pc) ==
    /\ calls' = [calls EXCEPT ![c].pc = pc]
    /\ running' = HolderAt(c, pc)

RegInit ==
    /\ peers = EmptyMap
    /\ fileIndex = EmptyMap
    /\ disk = EmptyRegistry
    /\ calls = [c \in Slots |-> IdleCall]
    /\ running = 0
    /\ lin = EmptyRegistry
    /\ ops = 0
    /\ saveErr = FALSE

\* registerPeer up to and including this.peers.set
RegisterPeer(c, peerData) ==
    /\ running = 0
    /\ FreeSlot(c)
    /\ ops < MaxOps
    /\ ops' = ops + 1
    /\ IF ~ValidRequest(peerData)
       THEN /\ calls' = [calls EXCEPT ![c] = [IdleCall EXCEPT !.pc = "returned",
                                    !.op = "register", !.result = "fail"]]
            /\ running' = HolderAt(c, "returned")
            /\ UNCHANGED <<peers, fileIndex, lin>>
       ELSE /\ peers' = SetPeer(Mem, peerData).peers
            /\ calls' = [calls EXCEPT ![c] = [IdleCall EXCEPT !.pc = "reg_update",
                                    !.op = "register", !.peerId = peerData.peerId,
                                    !.files = peerData.files,
                                    !.same = /\ MapHas(peers, peerData.peerId)
                                             /\ peers[peerData.peerId].files = peerData.files]]
            /\ running' = HolderAt(c, "reg_update")
            /\ lin' = RegisterWhole(lin, peerData)
            /\ UNCHANGED fileIndex
    /\ UNCHANGED <<disk, saveErr>>
    /\ RegFrame

\* updateFileIndex(peerId, files), then the await on its promise
RegUpdateIndex(c) ==
    /\ MayStep(c)
    /\ calls[c].pc = "reg_update"
    /\ LET st == UpdateFileIndex(Mem, calls[c].peerId, calls[c].files)
       IN  /\ peers' = st.peers
           /\ fileIndex' = st.fileIndex
    /\ calls' = [calls EXCEPT ![c].pc = "await_update", ![c].same = FALSE]
    /\ running' = HolderAt(c, "await_update")
    /\ UNCHANGED <<disk, lin, ops, saveErr>>
    /\ RegFrame

\* unregisterPeer up to and including the index loop
UnregisterPeer(c, peerId) ==
    /\ running = 0
    /\ FreeSlot(c)
    /\ ops < MaxOps
    /\ ops' = ops + 1
    /\ IF ~MapHas(peers, peerId)
       THEN /\ calls' = [calls EXCEPT ![c] = [IdleCall EXCEPT !.pc = "returned",
                                    !.op = "unregister", !.peerId = peerId,
                                    !.result = "fail"]]
            /\ running' = HolderAt(c, "returned")
            /\ UNCHANGED <<fileIndex, lin>>
       ELSE /\ fileIndex' = UnregisterIndex(Mem, peerId).fileIndex
            /\ calls' = [calls EXCEPT ![c] = [IdleCall EXCEPT !.pc = "unreg_delete",
                                    !.op = "unregister", !.peerId = peerId]]
            /\ running' = HolderAt(c, "unreg_delete")
            /\ lin' = IF MapHas(lin.peers, peerId) THEN UnregisterWhole(lin, peerId) ELSE lin
    /\ UNCHANGED <<peers, disk, saveErr>>
    /\ RegFrame

\* this.peers.delete(peerId), then saveRegistry() up to its await on mkdir
UnregDelete(c) ==
    /\ MayStep(c)
    /\ calls[c].pc = "unreg_delete"
    /\ peers' = DeletePeer(Mem, calls[c].peerId).peers
    /\ Goto(c, "save_mkdir")
    /\ UNCHANGED <<fileIndex, disk, lin, ops, saveErr>>
    /\ RegFrame

\* registerPeer resumes after updateFileIndex: saveRegistry() up to its await on mkdir
SaveBegin(c) ==
    /\ MayStep(c)
    /\ calls[c].pc = "await_update"
    /\ Goto(c, "save_mkdir")
    /\ UNCHANGED <<peers, fileIndex, disk, lin, ops, saveErr>>
    /\ RegFrame

\* mkdir done: the registry is serialised as it is now and writeFile is issued;
\* or mkdir failed and the call returns the failure
SaveSnapshot(c) ==
    /\ MayStep(c)
    /\ calls[c].pc = "save_mkdir"
    /\ \/ /\ calls' = [calls EXCEPT ![c].pc = "save_write", ![c].snap = Mem]
          /\ running' = HolderAt(c, "save_write")
          /\ UNCHANGED saveErr
          /\ UNCHANGED <<peers, fileIndex>>
       \/ /\ calls' = [calls EXCEPT ![c].pc = "returned", ![c].result = "fail"]
          /\ running' = HolderAt(c, "returned")
          /\ saveErr' = TRUE
          /\ peers' = CatchError(Mem, calls[c]).peers
          /\ fileIndex' = CatchError(Mem, calls[c]).fileIndex
    /\ UNCHANGED <<disk, lin, ops>>
    /\ RegFrame

\* writeFile done, or failed
SaveWrite(c) ==
    /\ MayStep(c)
    /\ calls[c].pc = "save_write"
    /\ \/ /\ disk' = calls[c].snap
          /\ calls' = [calls EXCEPT ![c].pc = "returned", ![c].result = "ok",
                                    ![c].snap = NoSnap]
          /\ UNCHANGED <<peers, fileIndex, saveErr>>
       \/ /\ disk' = disk
          /\ calls' = [calls EXCEPT ![c].pc = "returned", ![c].result = "fail",
                                    ![c].snap = NoSnap]
          /\ saveErr' = TRUE
          /\ peers' = CatchError(Mem, calls[c]).peers
          /\ fileIndex' = CatchError(Mem, calls[c]).fileIndex
    /\ running' = HolderAt(c, "returned")
    /\ UNCHANGED <<lin, ops>>
    /\ RegFrame

\* the caller takes the result
Return(c) ==
    /\ MayStep(c)
    /\ calls[c].pc = "returned"
    /\ calls' = [calls EXCEPT ![c] = IdleCall]
    /\ running' = 0
    /\ UNCHANGED <<peers, fileIndex, disk, lin, ops, saveErr>>
    /\ RegFrame

\* what searchFiles(filename) returns: the peers of the index entry
SearchResult(idx, filename) ==
    LET filePeers == MapGetOr(idx, filename, <<>>)
    IN  [i \in 1..Len(filePeers) |-> filePeers[i].peerId]

\* searchFiles and getPeers have no await: they run whole, when the loop is free,
\* and write nothing
SearchFiles(filename) ==
    /\ running = 0
    /\ UNCHANGED <<peers, fileIndex, disk, calls, running, lin, ops, saveErr>>
    /\ RegFrame

\* what getPeers() returns, as the set of {peerId, files} it lists
PeersResult(ps) == {<<p, ps[p].files>> : p \in DOMAIN ps}

GetPeers ==
    /\ running = 0
    /\ UNCHANGED <<peers, fileIndex, disk, calls, running, lin, ops, saveErr>>
    /\ RegFrame

(***************************************************************************)
(* FileIndexService.searchFiles, which serves GET /search/:filename        *)
(***************************************************************************)
\* the characters of the names used as filenames and search terms
NameChars(name) ==
    CASE name = "x.txt" -> <<"x", ".", "t", "x", "t">>
      [] name = "y.txt" -> <<"y", ".", "t", "x", "t">>
      [] name = "z.txt" -> <<"z", ".", "t", "x", "t">>
      [] name = "X.TXT" -> <<"X", ".", "T", "X", "T">>
      [] name = "txt" -> <<"t", "x", "t">>
      [] name = "my-x.txt" -> <<"m", "y", "-", "x", ".", "t", "x", "t">>

\* the :filename values searched for
SearchTerms == Files \cup {"z.txt", "X.TXT", "txt", "my-x.txt"}

LowerChar(ch) ==
    CASE ch = "X" -> "x"
      [] ch = "T" -> "t"
      [] OTHER -> ch
\* String.prototype.toLowerCase
ToLowerCase(str) == [i \in DOMAIN str |-> LowerChar(str[i])]
\* String.prototype.includes
Includes(str, part) ==
    \E i \in 0..(Len(str) - Len(part)) : SubSeq(str, i + 1, i + Len(part)) = part

\* a filter that keeps only the entry of the name itself
MatchesExactly(file, filename) == file = filename
\* the filter of searchFiles: either name contains the other, whatever the case
Matches(file, filename) ==
    \/ Includes(ToLowerCase(NameChars(file)), ToLowerCase(NameChars(filename)))
    \/ Includes(ToLowerCase(NameChars(filename)), ToLowerCase(NameChars(file)))

\* what FileIndexService.searchFiles(filename) returns on file index idx
FisSearchFiles(idx, filename) ==
    [success |-> TRUE,
     results |-> {[filename |-> file, peers |-> SearchResult(idx, file)] :
                     file \in {g \in DOMAIN idx : Matches(g, filename)}}]

\* GET /search/:filename: no await before the result, nothing is written
FileIndexSearch(filename) ==
    /\ running = 0
    /\ UNCHANGED <<peers, fileIndex, disk, calls, running, lin, ops, saveErr>>
    /\ RegFrame

RegNext ==
    \/ \E c \in Slots, d \in Requests : RegisterPeer(c, d)
    \/ \E c \in Slots : RegUpdateIndex(c)
    \/ \E c \in Slots, p \in PeerIds : UnregisterPeer(c, p)
    \/ \E c \in Slots : UnregDelete(c)
    \/ \E c \in Slots : SaveBegin(c)
    \/ \E c \in Slots : SaveSnapshot(c)
    \/ \E c \in Slots : SaveWrite(c)
    \/ \E c \in Slots : Return(c)
    \/ \E f \in Files : SearchFiles(f)
    \/ GetPeers

\* the tracker serving its calls one after the other, and searches between them
SearchNext ==
    \/ \E d \in Requests : RegisterPeer(1, d)
    \/ RegUpdateIndex(1)
    \/ \E p \in PeerIds : UnregisterPeer(1, p)
    \/ UnregDelete(1)
    \/ SaveBegin(1)
    \/ SaveSnapshot(1)
    \/ SaveWrite(1)
    \/ Return(1)
    \/ \E t \in SearchTerms : FileIndexSearch(t)

(***************************************************************************)
(* Registry invariants.                                                    *)
(***************************************************************************)
Range(seq) == {seq[i] : i \in 1..Len(seq)}
NoDuplicates(seq) == \A i, j \in 1..Len(seq) : seq[i] = seq[j] => i = j
IndexPeers(idx, f) == SearchResult(idx, f)
Listed(idx, f, p) == p \in Range(IndexPeers(idx, f))
Hosts(ps, p, f) == MapHas(ps, p) /\ f \in Range(ps[p].files)
Quiet == \A c \in Slots : calls[c].pc = "idle"

\* C1 (I1): whenever no call is in the middle of its in-memory update, the index
\* lists peer p under filename f if and only if p is registered and its record
\* lists f.
C1_IndexMatchesRecords ==
    running = 0 => \A p \in PeerIds, f \in Files : Listed(fileIndex, f, p) <=> Hosts(peers, p, f)

\* C2 (I3): once unregisterPeer(P) has removed P (and P has not been registered
\* again since), no index entry references P and no filename maps to an empty list.
C2_UnregisterCleansIndex ==
    \A c \in Slots :
        ( /\ calls[c].op = "unregister"
          /\ calls[c].pc \in {"save_mkdir", "save_write", "returned"}
          /\ calls[c].result # "fail"
          /\ ~MapHas(peers, calls[c].peerId) )
        => /\ \A f \in Files : ~Listed(fileIndex, f, calls[c].peerId)
           /\ \A f \in DOMAIN fileIndex : fileIndex[f] # <<>>

\* C7 (I2): in every state, no filename's peer list holds the same peerId twice.
C7_NoDuplicateIndexEntries ==
    \A f \in DOMAIN fileIndex : NoDuplicates(IndexPeers(fileIndex, f))

\* C7: the same peer has registered twice with the same list, which repeats a
\* filename, and both index updates are done.
C7_Witness ==
    /\ calls[1].op = "register" /\ calls[1].pc = "returned" /\ calls[1].result = "ok"
    /\ calls[2].op = "register" /\ calls[2].pc = "await_update"
    /\ calls[1].peerId = "p1" /\ calls[2].peerId = "p1"
    /\ calls[1].files = <<"x.txt", "x.txt">> /\ calls[2].files = <<"x.txt", "x.txt">>
    /\ Listed(fileIndex, "x.txt", "p1")

\* C10: whenever the event loop is free (the only states a read or another call
\* can run in), the in-memory registry is what the calls made so far give when
\* applied whole, one after the other in the order they started.
C10_MutationsAtomicInOrder ==
    running = 0 => Mem = lin

\* C11: once every call has returned and no saveRegistry() has failed, the
\* snapshot on storage equals the registry in memory: the writes of different
\* calls leave no older state on storage.
C11_SnapshotIsLatest ==
    (Quiet /\ ~saveErr) => disk = Mem

\* C12: when saveRegistry() fails in registerPeer or unregisterPeer, the call
\* returns a failure and the registry in memory stays as the call left it: the
\* registered peer stays registered and indexed, the unregistered peer stays
\* removed.
C12_SaveFailureKeepsMutation ==
    [][\A c \in Slots :
          ( /\ calls[c].pc \in {"save_mkdir", "save_write"}
            /\ calls'[c].pc = "returned"
            /\ calls'[c].result = "fail" )
          => /\ peers' = peers
             /\ fileIndex' = fileIndex
             /\ StatusCode(calls[c].op, calls'[c].result) \in {400, 404}]_vars

\* C12: a registerPeer of p1 with x.txt has returned a failure from its save,
\* nothing was written, and p1 is registered and found under x.txt.
C12_Witness ==
    /\ calls[1].op = "register" /\ calls[1].pc = "returned" /\ calls[1].result = "fail"
    /\ calls[1].peerId = "p1" /\ calls[1].files = <<"x.txt">>
    /\ calls[2].pc = "idle"
    /\ disk = EmptyRegistry
    /\ MapHas(peers, "p1")
    /\ SearchResult(fileIndex, "x.txt") = <<"p1">>

\* C13: a registerPeer whose peerId, ip or restPort is absent, and an
\* unregisterPeer of an unknown peerId, return a failure (400, 404) in one step
\* that leaves peers, fileIndex and the snapshot on storage as they were.
C13_RejectedCallChangesNothing ==
    [][\A c \in Slots :
          ( \/ \E d \in InvalidRequests : RegisterPeer(c, d)
            \/ \E p \in PeerIds : ~MapHas(peers, p) /\ UnregisterPeer(c, p) )
          => /\ UNCHANGED <<peers, fileIndex, disk>>
             /\ calls'[c].pc = "returned"
             /\ calls'[c].result = "fail"
             /\ StatusCode(calls'[c].op, calls'[c].result) \in {400, 404}]_vars

\* C13: a registerPeer was rejected while p1 is registered with x.txt and its
\* snapshot is on storage.
C13_Witness ==
    /\ calls[1].op = "register" /\ calls[1].pc = "returned" /\ calls[1].result = "fail"
    /\ calls[1].peerId = ""
    /\ calls[2].pc = "idle"
    /\ Hosts(peers, "p1", "x.txt")
    /\ disk = Mem

\* the peers a search result names
ResultPeers(result) == UNION {Range(e.peers) : e \in result.results}

C15_SameListLeavesIndex ==
    [][\A c \in Slots :
          (calls[c].pc = "reg_update" /\ calls[c].same /\ RegUpdateIndex(c))
          => fileIndex' = fileIndex]_vars

\* C10: two mutating calls are in flight together, on different peers, both past
\* their in-memory update, and none of their snapshots is written yet.
C10_Witness ==
    /\ calls[1].op = "register" /\ calls[1].pc = "save_write"
    /\ calls[2].op = "unregister" /\ calls[2].pc = "save_mkdir"
    /\ calls[1].peerId # calls[2].peerId
    /\ MapHas(peers, calls[1].peerId)

(***************************************************************************)
(* DirectoryGrpcService                                                    *)
(***************************************************************************)
\* longest peer list this.files keeps for one filename in the model
MaxIndexLen == 3

Address == "10.0.0.2"
GrpcPort == 9002
\* a FileInfo message of the request
GFile(f) == [filename |-> f]
GFileLists == {[i \in 1..Len(fl) |-> GFile(fl[i])] : fl \in FileLists}

NoAnswer == [op |-> "none", status |-> "OK", found |-> <<>>, listed |-> {}]

DirInit ==
    /\ gpeers = EmptyMap
    /\ gfiles = EmptyMap
    /\ glast = NoAnswer

\* files?.forEach(file => ... this.files.get(file.filename).push(peer_id))
RECURSIVE PushFiles(_, _, _)
PushFiles(idx, peer_id, files) ==
    IF files = <<>> THEN idx
    ELSE LET f == Head(files).filename
             idx1 == IF ~MapHas(idx, f) THEN MapSet(idx, f, <<>>) ELSE idx
         IN  PushFiles(MapSet(idx1, f, Append(idx1[f], peer_id)), peer_id, Tail(files))

\* peer.files?.forEach(file => ... filter(id => id !== peer_id) ...)
RECURSIVE DropFiles(_, _, _)
DropFiles(idx, peer_id, files) ==
    IF files = <<>> THEN idx
    ELSE LET f == Head(files).filename
             peersWithFile == MapGetOr(idx, f, <<>>)
             filtered == SelectSeq(peersWithFile, LAMBDA id : id # peer_id)
         IN  DropFiles(IF Len(filtered) = 0 THEN MapDelete(idx, f) ELSE MapSet(idx, f, filtered),
                       peer_id, Tail(files))

\* peerData of registerPeer; hasFiles is false once `delete peer.files` has run
GPeerData(peer_id, files) ==
    [peer_id |-> peer_id, address |-> Address, port |-> GrpcPort, files |-> files,
     hasFiles |-> TRUE, status |-> "ONLINE"]

DirRegisterPeer(peer_id, files) ==
    /\ gpeers' = MapSet(gpeers, peer_id, GPeerData(peer_id, files))
    /\ gfiles' = PushFiles(gfiles, peer_id, files)
    /\ \A f \in DOMAIN gfiles' : Len(gfiles'[f]) <= MaxIndexLen
    /\ glast' = [NoAnswer EXCEPT !.op = "registerPeer"]
    /\ DirFrame

DirUnregisterPeer(peer_id) ==
    /\ IF ~MapHas(gpeers, peer_id)
       THEN /\ glast' = [NoAnswer EXCEPT !.op = "unregisterPeer", !.status = "NOT_FOUND"]
            /\ UNCHANGED <<gpeers, gfiles>>
       ELSE /\ gfiles' = IF gpeers[peer_id].hasFiles
                         THEN DropFiles(gfiles, peer_id, gpeers[peer_id].files)
                         ELSE gfiles
            /\ gpeers' = MapDelete(gpeers, peer_id)
            /\ glast' = [NoAnswer EXCEPT !.op = "unregisterPeer"]
    /\ DirFrame

\* peers.forEach(peer => { delete peer.files }): the records of this.peers themselves
WithoutFiles(ps) == [q \in DOMAIN ps |-> [ps[q] EXCEPT !.hasFiles = FALSE, !.files = <<>>]]

\* the records getPeers leaves in this.peers
PeersAfterGet(ps, include_files) == IF ~include_files THEN WithoutFiles(ps) ELSE ps

DirGetPeers(include_files) ==
    /\ gpeers' = PeersAfterGet(gpeers, include_files)
    /\ glast' = [NoAnswer EXCEPT !.op = "getPeers",
                     !.listed = {<<q, gpeers'[q].hasFiles, gpeers'[q].files>> : q \in DOMAIN gpeers'}]
    /\ UNCHANGED gfiles
    /\ DirFrame

\* the peers searchFiles answers for an exact filename, in index order
FileLocations(ps, idx, filename) ==
    SelectSeq(MapGetOr(idx, filename, <<>>),
              LAMBDA id : /\ MapHas(ps, id)
                          /\ ps[id].status = "ONLINE"
                          /\ ps[id].hasFiles
                          /\ \E i \in 1..Len(ps[id].files) : ps[id].files[i].filename = filename)

DirSearchFiles(filename) ==
    /\ glast' = [NoAnswer EXCEPT !.op = "searchFiles",
                     !.found = FileLocations(gpeers, gfiles, filename)]
    /\ UNCHANGED <<gpeers, gfiles>>
    /\ DirFrame

DirNext ==
    \/ \E p \in PeerIds, fl \in GFileLists : DirRegisterPeer(p, fl)
    \/ \E p \in PeerIds : DirUnregisterPeer(p)
    \/ \E inc \in BOOLEAN : DirGetPeers(inc)
    \/ \E f \in Files : DirSearchFiles(f)

\* C8 (I2, gRPC directory): this.files holds no peer_id twice under one filename.
C8_DirNoDuplicateIndexEntries ==
    \A f \in DOMAIN gfiles : NoDuplicates(gfiles[f])

\* C9: a read-only query (getPeers with or without include_files, searchFiles)
\* leaves every peer record and the whole file index as they were.
C9_QueriesLeaveRegistryUnchanged ==
    [][((\E inc \in BOOLEAN : DirGetPeers(inc)) \/ (\E f \in Files : DirSearchFiles(f)))
        => UNCHANGED <<gpeers, gfiles>>]_vars

(***************************************************************************)
(* Files, checksums and streams of the transfer protocol.                  *)
(***************************************************************************)
\* a file of n bytes, every byte different
SrcBytes(n) == [i \in 1..n |-> i]

\* crypto.createHash('sha256').update(data).digest('hex'): one value per content
Sha(data) == [alg |-> "sha256", of |-> data]
\* the empty string of an absent checksum
NoSum == [alg |-> "", of |-> <<>>]

Min(a, b) == IF a < b THEN a ELSE b
Max(a, b) == IF a > b THEN a ELSE b

\* the bytes of data from offset (0-based), at most len of them
Slice(data, offset, len) ==
    [i \in 1..Min(len, Len(data) - offset) |-> data[offset + i]]

\* write(bytes, 0, bytes.length, pos): the file grows as needed, a hole reads 0
WriteAt(data, pos, bytes) ==
    [i \in 1..Max(Len(data), pos + Len(bytes)) |->
        IF i > pos /\ i <= pos + Len(bytes) THEN bytes[i - pos]
        ELSE IF i <= Len(data) THEN data[i] ELSE 0]

\* a path of the file system: whether a file is there, its bytes, and the open
\* handles that name this file
NoFile == [exists |-> FALSE, data |-> <<>>, linked |-> {}]

\* fs.open(path, 'w') giving handle h: the file is truncated, or a new one created
OpenW(file, h) ==
    [exists |-> TRUE, data |-> <<>>,
     linked |-> IF file.exists THEN file.linked \cup {h} ELSE {h}]
\* fs.unlink(path) on an existing file; the open handles keep the removed file
Unlink(file) == NoFile
\* a write through handle h reaches the path only while h still names its file
WriteFile(file, h, pos, bytes) ==
    IF h \in file.linked THEN [file EXCEPT !.data = WriteAt(file.data, pos, bytes)] ELSE file

InfoMsg(total, sum) == [type |-> "file_info", total_size |-> total, checksum |-> sum, chunk |-> <<>>]
ChunkMsg(bytes) == [type |-> "chunk", total_size |-> 0, checksum |-> NoSum, chunk |-> bytes]
EndMsg == [type |-> "end", total_size |-> 0, checksum |-> NoSum, chunk |-> <<>>]

\* the while loop of uploadFile: the chunks of data from offset on
RECURSIVE UploadChunks(_, _)
UploadChunks(data, offset) ==
    IF ~(offset < Len(data)) THEN <<>>
    ELSE LET bytesToRead == Min(ChunkSize, Len(data) - offset)
         IN  <<ChunkMsg(Slice(data, offset, bytesToRead))>>
                 \o UploadChunks(data, offset + bytesToRead)

\* what PeerGrpcClient.uploadFile writes to the stream for a file holding data
UploadStream(data) ==
    <<InfoMsg(Len(data), Sha(data))>> \o UploadChunks(data, 0) \o <<EndMsg>>

(***************************************************************************)
(* PeerGrpcService.receiveFile                                              *)
(***************************************************************************)
\* the senders of a ReceiveFile stream: uploadFile, and clients that announce
\* another size, another or no checksum, or no file_info at all
Senders ==
    [data : {SrcBytes(n) : n \in 0..MaxFileLen},
     kind : {"uploadFile", "wrong_size", "wrong_checksum", "no_checksum", "no_file_info"},
     existing : BOOLEAN]

StreamOf(sender) ==
    LET data == sender.data
    IN  CASE sender.kind = "uploadFile" -> UploadStream(data)
          [] sender.kind = "wrong_size" ->
                <<InfoMsg(Len(data) + 1, Sha(data))>> \o UploadChunks(data, 0) \o <<EndMsg>>
          [] sender.kind = "wrong_checksum" ->
                <<InfoMsg(Len(data), Sha(<<0>> \o data))>> \o UploadChunks(data, 0) \o <<EndMsg>>
          [] sender.kind = "no_checksum" ->
                <<InfoMsg(Len(data), NoSum)>> \o UploadChunks(data, 0) \o <<EndMsg>>
          [] OTHER -> UploadChunks(data, 0) \o <<EndMsg>>

NoSender == [data |-> <<>>, kind |-> "none", existing |-> FALSE]
NoInfo == [has |-> FALSE, total_size |-> 0, checksum |-> NoSum]
RxLocals == [fileInfo |-> NoInfo, fileHandle |-> FALSE, receivedBytes |-> 0, filePath |-> FALSE]

RxInit ==
    /\ rxStream = NoSender
    /\ wire = <<>>
    /\ streamState = "none"
    /\ rx = RxLocals
    /\ openSt = "none"
    /\ rxWrites = {}
    /\ endPc = "idle"
    /\ errPc = "idle"
    /\ reply = "none"
    /\ fault = FALSE
    /\ dest = NoFile

\* callback(...): the first answer is the call's
Callback(answer) == reply' = IF reply = "none" THEN answer ELSE reply

\* a client opens a ReceiveFile stream; receiveFile installs its handlers
RecvOpen(sender) ==
    /\ streamState = "none"
    /\ rxStream' = sender
    /\ wire' = StreamOf(sender)
    /\ streamState' = "open"
    /\ dest' = IF sender.existing THEN [exists |-> TRUE, data |-> <<0>>, linked |-> {}]
               ELSE NoFile
    /\ UNCHANGED <<rx, openSt, rxWrites, endPc, errPc, reply, fault>>
    /\ RxFrame

\* the 'data' handler up to its await
RecvData ==
    /\ streamState = "open"
    /\ wire # <<>>
    /\ Head(wire).type # "end"
    /\ wire' = Tail(wire)
    /\ LET request == Head(wire)
       IN  IF request.type = "file_info"
           THEN /\ rx' = [rx EXCEPT !.fileInfo = [has |-> TRUE, total_size |-> request.total_size,
                                                  checksum |-> request.checksum],
                                    !.filePath = TRUE]
                /\ openSt' = "queued"
                /\ UNCHANGED rxWrites
           ELSE IF rx.fileHandle
           THEN /\ rxWrites' = rxWrites \cup
                        {[id |-> Len(wire), pos |-> rx.receivedBytes, chunk |-> request.chunk]}
                /\ UNCHANGED <<rx, openSt>>
           ELSE UNCHANGED <<rx, openSt, rxWrites>>
    /\ UNCHANGED <<rxStream, streamState, endPc, errPc, reply, fault, dest>>
    /\ RxFrame

\* the file system carries out the open
OpenEffect ==
    /\ openSt = "queued"
    /\ openSt' = "effected"
    /\ dest' = OpenW(dest, 1)
    /\ UNCHANGED <<rxStream, wire, streamState, rx, rxWrites, endPc, errPc, reply, fault>>
    /\ RxFrame

\* the data handler resumes: fileHandle = the handle
OpenResume ==
    /\ openSt = "effected"
    /\ openSt' = "resumed"
    /\ rx' = [rx EXCEPT !.fileHandle = TRUE]
    /\ UNCHANGED <<rxStream, wire, streamState, dest, rxWrites, endPc, errPc, reply, fault>>
    /\ RxFrame

\* the 'error' handler up to its first await
ErrorHandlerStart ==
    IF rx.fileHandle
    THEN errPc' = "closing" /\ UNCHANGED reply
    ELSE IF rx.filePath
    THEN errPc' = "unlinking" /\ UNCHANGED reply
    ELSE errPc' = "done" /\ Callback("ABORTED")

\* a write completes and the data handler resumes: receivedBytes += chunk.length
WriteDone(w) ==
    /\ w \in rxWrites
    /\ rxWrites' = rxWrites \ {w}
    /\ dest' = WriteFile(dest, 1, w.pos, w.chunk)
    /\ rx' = [rx EXCEPT !.receivedBytes = rx.receivedBytes + Len(w.chunk)]
    /\ UNCHANGED <<rxStream, wire, streamState, openSt, endPc, errPc, reply, fault>>
    /\ RxFrame

\* a write fails: the data handler's catch destroys the call, which emits
\* 'error' if the stream is still open
WriteFail(w) ==
    /\ w \in rxWrites
    /\ rxWrites' = rxWrites \ {w}
    /\ fault' = TRUE
    /\ IF streamState = "open"
       THEN /\ streamState' = "errored"
            /\ wire' = <<>>
            /\ ErrorHandlerStart
       ELSE UNCHANGED <<streamState, wire, errPc, reply>>
    /\ UNCHANGED <<rxStream, rx, openSt, endPc, dest>>
    /\ RxFrame

\* the stream fails (the connection drops, a protocol error): 'error'
RecvStreamError ==
    /\ streamState = "open"
    /\ streamState' = "errored"
    /\ wire' = <<>>
    /\ fault' = TRUE
    /\ ErrorHandlerStart
    /\ UNCHANGED <<rxStream, rx, openSt, rxWrites, endPc, dest>>
    /\ RxFrame

\* the client cancels the call: the stream emits 'cancelled', for which
\* receiveFile installs no listener; nothing more is delivered, none of the
\* three handlers runs and the callback is not called
RecvCancel ==
    /\ streamState = "open"
    /\ streamState' = "cancelled"
    /\ wire' = <<>>
    /\ fault' = TRUE
    /\ UNCHANGED <<rxStream, rx, openSt, rxWrites, endPc, errPc, reply, dest>>
    /\ RxFrame

\* fileHandle.close() waits for the operations pending on the handle
CloseReady == rxWrites = {}

\* error handler: the close is done; fileHandle = null, then the unlink if filePath
ErrClose ==
    /\ errPc = "closing"
    /\ CloseReady
    /\ rx' = [rx EXCEPT !.fileHandle = FALSE]
    /\ IF rx.filePath
       THEN errPc' = "unlinking" /\ UNCHANGED reply
       ELSE errPc' = "done" /\ Callback("ABORTED")
    /\ UNCHANGED <<rxStream, wire, streamState, openSt, rxWrites, endPc, fault, dest>>
    /\ RxFrame

\* error handler: the unlink is done (a failure is only logged), then the callback
ErrUnlink ==
    /\ errPc = "unlinking"
    /\ dest' = IF dest.exists THEN Unlink(dest) ELSE dest
    /\ errPc' = "done"
    /\ Callback("ABORTED")
    /\ UNCHANGED <<rxStream, wire, streamState, rx, openSt, rxWrites, endPc, fault>>
    /\ RxFrame

\* the 'end' handler after its close: the size check, then the checksum check
EndChecks(locals) ==
    IF locals.fileInfo.has /\ locals.receivedBytes # locals.fileInfo.total_size
    THEN endPc' = "unlink_size" /\ UNCHANGED reply
    ELSE IF locals.fileInfo.has /\ locals.fileInfo.checksum.alg # ""
    THEN endPc' = "hashing" /\ UNCHANGED reply
    ELSE endPc' = "done" /\ Callback("OK")

\* 'end' is emitted: the handler up to its first await
RecvEnd ==
    /\ streamState = "open"
    /\ wire # <<>>
    /\ Head(wire).type = "end"
    /\ wire' = Tail(wire)
    /\ streamState' = "ended"
    /\ IF rx.fileHandle
       THEN endPc' = "closing" /\ UNCHANGED reply
       ELSE EndChecks(rx)
    /\ UNCHANGED <<rxStream, rx, openSt, rxWrites, errPc, fault, dest>>
    /\ RxFrame

EndClose ==
    /\ endPc = "closing"
    /\ CloseReady
    /\ rx' = [rx EXCEPT !.fileHandle = FALSE]
    /\ EndChecks(rx)
    /\ UNCHANGED <<rxStream, wire, streamState, openSt, rxWrites, errPc, fault, dest>>
    /\ RxFrame

\* the unlink of a corrupt file, then the DATA_LOSS answer; an unlink that fails
\* (no file at filePath) throws into the handler's catch
EndUnlink ==
    /\ endPc \in {"unlink_size", "unlink_sum"}
    /\ endPc' = "done"
    /\ IF dest.exists
       THEN dest' = Unlink(dest) /\ Callback("DATA_LOSS")
       ELSE dest' = dest /\ Callback("INTERNAL")
    /\ UNCHANGED <<rxStream, wire, streamState, rx, openSt, rxWrites, errPc, fault>>
    /\ RxFrame

\* calculateChecksum(filePath) is done and compared with fileInfo.checksum
EndHash ==
    /\ endPc = "hashing"
    /\ IF ~dest.exists
       THEN endPc' = "done" /\ Callback("INTERNAL")
       ELSE IF Sha(dest.data) # rx.fileInfo.checksum
       THEN endPc' = "unlink_sum" /\ UNCHANGED reply
       ELSE endPc' = "done" /\ Callback("OK")
    /\ UNCHANGED <<rxStream, wire, streamState, rx, openSt, rxWrites, errPc, fault, dest>>
    /\ RxFrame

\* calculateChecksum fails to read the file: the handler's catch answers INTERNAL
EndHashFail ==
    /\ endPc = "hashing"
    /\ dest.exists
    /\ fault' = TRUE
    /\ endPc' = "done"
    /\ Callback("INTERNAL")
    /\ UNCHANGED <<rxStream, wire, streamState, rx, openSt, rxWrites, errPc, dest>>
    /\ RxFrame

RxNext ==
    \/ \E sender \in Senders : RecvOpen(sender)
    \/ RecvData
    \/ OpenEffect
    \/ OpenResume
    \/ \E w \in rxWrites : WriteDone(w)
    \/ \E w \in rxWrites : WriteFail(w)
    \/ RecvStreamError
    \/ RecvCancel
    \/ ErrClose
    \/ ErrUnlink
    \/ RecvEnd
    \/ EndClose
    \/ EndUnlink
    \/ EndHash
    \/ EndHashFail

\* the call has answered and nothing of it is still running
RxSettled ==
    /\ reply # "none"
    /\ openSt \in {"none", "resumed"}
    /\ rxWrites = {}
    /\ endPc \in {"idle", "done"}
    /\ errPc \in {"idle", "done"}

\* C3: an uploadFile stream, with no stream error and no file-system failure,
\* ends in success with the destination file holding exactly the source bytes
\* (hence the source checksum), whatever the order of the receiver's handlers.
C3_UploadRoundTrip ==
    (rxStream.kind = "uploadFile" /\ ~fault /\ RxSettled)
        => (reply = "OK" /\ dest.exists /\ dest.data = rxStream.data)

\* the stream announces a size other than the bytes it carries, or a checksum
\* other than that of the bytes it carries
Inconsistent(sender) == sender.kind \in {"wrong_size", "wrong_checksum"}

\* C4: when a stream completes whose announced size or checksum does not match
\* the bytes sent, the call fails with DATA_LOSS and no file is left at the
\* destination path.
C4_IntegrityRejection ==
    (Inconsistent(rxStream) /\ streamState = "ended" /\ ~fault /\ RxSettled)
        => (reply = "DATA_LOSS" /\ ~dest.exists)

\* C5: after a receiveFile that announced a file and failed, no file exists at
\* the destination path.
C5_NoFileAfterFailure ==
    (rx.fileInfo.has /\ RxSettled /\ reply # "OK") => ~dest.exists

\* nothing of the call is still running: no open or write pending, no handler
\* suspended
RxQuiet ==
    /\ openSt \in {"none", "resumed"}
    /\ rxWrites = {}
    /\ endPc \in {"idle", "done"}
    /\ errPc \in {"idle", "done"}

\* C22: after the initiator has cancelled a receiveFile that had opened its
\* destination file, and the receiver's pending work is over, no file is left
\* at the destination path and the file handle is released.
C22_CancelCleansUp ==
    (streamState = "cancelled" /\ openSt = "resumed" /\ RxQuiet)
        => (~dest.exists /\ ~rx.fileHandle)

\* C38: after a receiveFile that failed, a file that existed under the
\* announced name before the call still exists with its previous content.
C38_FailureKeepsExistingFile ==
    (rxStream.existing /\ rx.fileInfo.has /\ RxSettled /\ reply \notin {"none", "OK"})
        => (dest.exists /\ dest.data = <<0>>)

\* C39: receiveFile answers success only if a file_info was received and the
\* file of the announced name exists with exactly total_size bytes.
C39_SuccessNeedsFileInfo ==
    (reply = "OK")
        => (rx.fileInfo.has /\ dest.exists /\ Len(dest.data) = rx.fileInfo.total_size)

(***************************************************************************)
(* PeerGrpcService.transferFile (the sender) and                           *)
(* PeerGrpcClient.downloadFile (the receiver)                               *)
(***************************************************************************)
Response(bytes, offset, isLast, sum) ==
    [type |-> "chunk", chunk |-> bytes, offset |-> offset, is_last |-> isLast, checksum |-> sum]
EndOfStream == [type |-> "end", chunk |-> <<>>, offset |-> 0, is_last |-> FALSE, checksum |-> NoSum]

\* the while loop of transferFile: the responses for the file from currentOffset
\* on; the last one carries the checksum of the whole file
RECURSIVE TransferChunks(_, _)
TransferChunks(data, currentOffset) ==
    IF ~(currentOffset < Len(data)) THEN <<>>
    ELSE LET bytesToRead == Min(ChunkSize, Len(data) - currentOffset)
             isLast == currentOffset + bytesToRead >= Len(data)
         IN  <<Response(Slice(data, currentOffset, bytesToRead), currentOffset, isLast,
                        IF isLast THEN Sha(data) ELSE NoSum)>>
                 \o TransferChunks(data, currentOffset + bytesToRead)

\* the first chunk was read before the file took the content that is hashed
StaleFirst(stream) ==
    IF stream = <<>> THEN stream
    ELSE [stream EXCEPT ![1].chunk = [i \in DOMAIN stream[1].chunk |-> 0]]

\* what transferFile writes to the stream for a request with offset 0
TransferStream(source) ==
    (IF source.stale THEN StaleFirst(TransferChunks(source.data, 0))
     ELSE TransferChunks(source.data, 0)) \o <<EndOfStream>>

Sources == [data : {SrcBytes(n) : n \in 0..MaxFileLen}, stale : BOOLEAN, kind : {"transferFile"}]
NoSource == [data |-> <<>>, stale |-> FALSE, kind |-> "none"]
DlLocals == [fileHandle |-> 0, receivedBytes |-> 0, expectedChecksum |-> NoSum,
             closing |-> 0]

DlInit ==
    /\ dlSource = NoSource
    /\ dlWire = <<>>
    /\ dlState = "none"
    /\ dl = DlLocals
    /\ dlTasks = {}
    /\ dlEndPc = "idle"
    /\ dlErrPc = "idle"
    /\ outcome = "pending"
    /\ dlVerified = FALSE
    /\ saved = NoFile

\* resolve(...) and reject(...): the promise settles once
Settle(how) == outcome' = IF outcome = "pending" THEN how ELSE outcome

\* downloadFile calls TransferFile and installs its handlers
DownloadStart(source) ==
    /\ dlState = "none"
    /\ dlSource' = source
    /\ dlWire' = TransferStream(source)
    /\ dlState' = "open"
    /\ UNCHANGED <<dl, dlTasks, dlEndPc, dlErrPc, outcome, dlVerified, saved>>
    /\ DlFrame

\* the 'data' handler up to its first await: the open if there is no handle
\* yet, else the write through the handle
DlData ==
    /\ dlState = "open"
    /\ dlWire # <<>>
    /\ Head(dlWire).type = "chunk"
    /\ dlWire' = Tail(dlWire)
    /\ dlTasks' = dlTasks \cup
            {IF dl.fileHandle = 0
             THEN [id |-> Len(dlWire), pc |-> "open", handle |-> 0, response |-> Head(dlWire)]
             ELSE [id |-> Len(dlWire), pc |-> "write", handle |-> dl.fileHandle,
                   response |-> Head(dlWire)]}
    /\ UNCHANGED <<dlSource, dlState, dl, dlEndPc, dlErrPc, outcome, dlVerified, saved>>
    /\ DlFrame

\* the file system carries out the open of task t
DlOpenEffect(t) ==
    /\ t \in dlTasks
    /\ t.pc = "open"
    /\ saved' = OpenW(saved, t.id)
    /\ dlTasks' = (dlTasks \ {t}) \cup {[t EXCEPT !.pc = "opened"]}
    /\ UNCHANGED <<dlSource, dlWire, dlState, dl, dlEndPc, dlErrPc, outcome, dlVerified>>
    /\ DlFrame

\* task t resumes: fileHandle = its handle, then the write through it
DlOpenResume(t) ==
    /\ t \in dlTasks
    /\ t.pc = "opened"
    /\ dl' = [dl EXCEPT !.fileHandle = t.id]
    /\ dlTasks' = (dlTasks \ {t}) \cup {[t EXCEPT !.pc = "write", !.handle = t.id]}
    /\ UNCHANGED <<dlSource, dlWire, dlState, dlEndPc, dlErrPc, outcome, dlVerified, saved>>
    /\ DlFrame

\* the write of task t completes and the handler runs to its end
DlWriteDone(t) ==
    /\ t \in dlTasks
    /\ t.pc = "write"
    /\ dlTasks' = dlTasks \ {t}
    /\ saved' = WriteFile(saved, t.handle, t.response.offset, t.response.chunk)
    /\ dl' = [dl EXCEPT !.receivedBytes = dl.receivedBytes + Len(t.response.chunk),
                        !.expectedChecksum =
                            IF t.response.is_last /\ t.response.checksum.alg # ""
                            THEN t.response.checksum ELSE dl.expectedChecksum]
    /\ UNCHANGED <<dlSource, dlWire, dlState, dlEndPc, dlErrPc, outcome, dlVerified>>
    /\ DlFrame

\* the write of task t fails: reject(writeError)
DlWriteFail(t) ==
    /\ t \in dlTasks
    /\ t.pc = "write"
    /\ dlTasks' = dlTasks \ {t}
    /\ Settle("rejected")
    /\ UNCHANGED <<dlSource, dlWire, dlState, dl, dlEndPc, dlErrPc, dlVerified, saved>>
    /\ DlFrame

\* fileHandle.close() waits for the operations pending on that handle
DlCloseReady(h) == \A t \in dlTasks : ~(t.pc = "write" /\ t.handle = h)

\* the 'end' handler after its close: the checksum check if one was received
DlEndChecks ==
    IF dl.expectedChecksum.alg # ""
    THEN dlEndPc' = "hashing" /\ UNCHANGED outcome
    ELSE dlEndPc' = "done" /\ Settle("resolved")

\* 'end' is emitted: the handler up to its first await
DlEnd ==
    /\ dlState = "open"
    /\ dlWire # <<>>
    /\ Head(dlWire).type = "end"
    /\ dlWire' = Tail(dlWire)
    /\ dlState' = "ended"
    /\ IF dl.fileHandle # 0
       THEN /\ dlEndPc' = "closing"
            /\ dl' = [dl EXCEPT !.closing = dl.fileHandle]
            /\ UNCHANGED outcome
       ELSE DlEndChecks /\ UNCHANGED dl
    /\ UNCHANGED <<dlSource, dlTasks, dlErrPc, dlVerified, saved>>
    /\ DlFrame

DlEndClose ==
    /\ dlEndPc = "closing"
    /\ DlCloseReady(dl.closing)
    /\ DlEndChecks
    /\ UNCHANGED <<dlSource, dlWire, dlState, dl, dlTasks, dlErrPc, dlVerified, saved>>
    /\ DlFrame

\* the saved file is read and hashed, and the hash compared with expectedChecksum
DlEndHash ==
    /\ dlEndPc = "hashing"
    /\ IF ~saved.exists
       THEN dlEndPc' = "done" /\ Settle("rejected") /\ UNCHANGED dlVerified
       ELSE IF Sha(saved.data) # dl.expectedChecksum
       THEN dlEndPc' = "unlinking" /\ UNCHANGED <<outcome, dlVerified>>
       ELSE dlEndPc' = "done" /\ Settle("resolved") /\ dlVerified' = TRUE
    /\ UNCHANGED <<dlSource, dlWire, dlState, dl, dlTasks, dlErrPc, saved>>
    /\ DlFrame

\* the unlink after a mismatch, then the rejection; an unlink that fails throws
\* into the handler's catch, which rejects too
DlEndUnlink ==
    /\ dlEndPc = "unlinking"
    /\ dlEndPc' = "done"
    /\ saved' = IF saved.exists THEN Unlink(saved) ELSE saved
    /\ Settle("rejected")
    /\ UNCHANGED <<dlSource, dlWire, dlState, dl, dlTasks, dlErrPc, dlVerified>>
    /\ DlFrame

\* the stream fails: the 'error' handler up to its first await
DlStreamError ==
    /\ dlState = "open"
    /\ dlState' = "errored"
    /\ dlWire' = <<>>
    /\ IF dl.fileHandle # 0
       THEN dlErrPc' = "closing" /\ dl' = [dl EXCEPT !.closing = dl.fileHandle]
       ELSE dlErrPc' = "unlinking" /\ UNCHANGED dl
    /\ UNCHANGED <<dlSource, dlTasks, dlEndPc, outcome, dlVerified, saved>>
    /\ DlFrame

DlErrClose ==
    /\ dlErrPc = "closing"
    /\ DlCloseReady(dl.closing)
    /\ dlErrPc' = "unlinking"
    /\ UNCHANGED <<dlSource, dlWire, dlState, dl, dlTasks, dlEndPc, outcome, dlVerified, saved>>
    /\ DlFrame

\* error handler: the unlink is done (a failure is only logged), then reject(error)
DlErrUnlink ==
    /\ dlErrPc = "unlinking"
    /\ dlErrPc' = "done"
    /\ saved' = IF saved.exists THEN Unlink(saved) ELSE saved
    /\ Settle("rejected")
    /\ UNCHANGED <<dlSource, dlWire, dlState, dl, dlTasks, dlEndPc, dlVerified>>
    /\ DlFrame

DlNext ==
    \/ \E source \in Sources : DownloadStart(source)
    \/ DlData
    \/ \E t \in dlTasks : DlOpenEffect(t)
    \/ \E t \in dlTasks : DlOpenResume(t)
    \/ \E t \in dlTasks : DlWriteDone(t)
    \/ \E t \in dlTasks : DlWriteFail(t)
    \/ DlEnd
    \/ DlEndClose
    \/ DlEndHash
    \/ DlEndUnlink
    \/ DlStreamError
    \/ DlErrClose
    \/ DlErrUnlink

\* nothing of the download is still running
DlSettled ==
    /\ outcome # "pending"
    /\ dlTasks = {}
    /\ dlEndPc \in {"idle", "done"}
    /\ dlErrPc \in {"idle", "done"}

\* C6: the download of a file that has a last chunk resolves only after the
\* hash of the saved file was compared with that chunk's checksum and found
\* equal, and a download whose saved content differs from the source's never
\* resolves.
C6_ResolveOnlyVerified ==
    (outcome = "resolved" /\ dlSource.data # <<>>)
        => (dlVerified /\ (DlSettled => saved.exists /\ saved.data = dlSource.data))

(***************************************************************************)
(* PeerGrpcService.transferFile, one step per iteration of its loop        *)
(***************************************************************************)
\* Scenario C: a file of 10 MiB asked for from offset 0 in chunks of 64 KiB
ScenarioC ==
    [exists |-> TRUE, fileSize |-> 10 * 1024 * 1024, offset |-> 0, chunk_size |-> 1024 * 64]

\* call.request and the file it names: whether it exists and its size
TransferRequests ==
    {r \in [exists : BOOLEAN, fileSize : 0..MaxTransferLen, offset : 0..MaxTransferLen,
            chunk_size : 0..MaxChunkSize] : r.offset <= r.fileSize}
        \cup {ScenarioC}

\* calculateChecksum(filePath): the digest of the whole file; a file too long to
\* write out is named by its size
FileChecksum(fileSize) ==
    IF fileSize <= MaxTransferLen THEN Sha(SrcBytes(fileSize))
    ELSE [alg |-> "sha256", of |-> <<fileSize>>]

\* an iteration that reads one byte less than asked whenever it can
NextChunkShort(fileSize, currentOffset, chunk_size) ==
    LET remainingBytes == fileSize - currentOffset
        bytesToRead == Max(1, Min(chunk_size, remainingBytes) - 1)
        isLast == currentOffset + bytesToRead >= fileSize
    IN  [offset |-> currentOffset, length |-> bytesToRead, is_last |-> isLast,
         checksum |-> IF isLast THEN FileChecksum(fileSize) ELSE NoSum]

\* one iteration of the loop: the response written; `length` stands for the
\* chunk, the bytes of the file from offset on
NextChunk(fileSize, currentOffset, chunk_size) ==
    LET remainingBytes == fileSize - currentOffset
        bytesToRead == Min(chunk_size, remainingBytes)
        isLast == currentOffset + bytesToRead >= fileSize
    IN  [offset |-> currentOffset, length |-> bytesToRead, is_last |-> isLast,
         checksum |-> IF isLast THEN FileChecksum(fileSize) ELSE NoSum]

TfIdle == [pc |-> "idle", exists |-> FALSE, fileSize |-> 0, offset |-> 0, chunk_size |-> 0,
           currentOffset |-> 0]

TfInit ==
    /\ tf = TfIdle
    /\ tfOut = <<>>

\* transferFile up to its loop: fs.access, fs.stat, fs.open; a missing file
\* throws into the catch, which destroys the call with NOT_FOUND
TransferFile(request) ==
    /\ tf.pc = "idle"
    /\ tf' = [pc |-> IF request.exists THEN "loop" ELSE "destroyed",
              exists |-> request.exists, fileSize |-> request.fileSize,
              offset |-> request.offset, chunk_size |-> request.chunk_size,
              currentOffset |-> request.offset]
    /\ UNCHANGED tfOut
    /\ TfFrame

\* one iteration: read, checksum if last, call.write, currentOffset += bytesRead
TransferChunk ==
    /\ tf.pc = "loop"
    /\ tf.currentOffset < tf.fileSize
    /\ LET response == NextChunk(tf.fileSize, tf.currentOffset, tf.chunk_size)
       IN  /\ tfOut' = IF Len(tfOut) < MaxResponses THEN Append(tfOut, response) ELSE tfOut
           /\ tf' = [tf EXCEPT !.currentOffset = tf.currentOffset + response.length]
    /\ TfFrame

\* the loop is over: call.end()
TransferEnd ==
    /\ tf.pc = "loop"
    /\ ~(tf.currentOffset < tf.fileSize)
    /\ tf' = [tf EXCEPT !.pc = "ended"]
    /\ UNCHANGED tfOut
    /\ TfFrame

\* a read or the checksum fails: the catch destroys the call
TransferFail ==
    /\ tf.pc = "loop"
    /\ tf.currentOffset < tf.fileSize
    /\ tf' = [tf EXCEPT !.pc = "destroyed"]
    /\ UNCHANGED tfOut
    /\ TfFrame

TfNext ==
    \/ \E request \in TransferRequests : TransferFile(request)
    \/ TransferChunk
    \/ TransferEnd
    \/ TransferFail

\* C36: every transferFile call terminates: each iteration of its loop brings
\* currentOffset closer to fileSize, so that after finitely many chunks the
\* loop is left; no iteration writes a chunk and leaves the offset where it was.
C36_TransferTerminates ==
    [][(tf.pc = "loop" /\ tf'.pc = "loop") => tf'.currentOffset > tf.currentOffset]_vars

\* the bytes of the file a response carries
ChunkBytes(fileSize, response) == Slice(SrcBytes(fileSize), response.offset, response.length)

RECURSIVE Concat(_, _)
Concat(fileSize, responses) ==
    IF responses = <<>> THEN <<>>
    ELSE ChunkBytes(fileSize, Head(responses)) \o Concat(fileSize, Tail(responses))

\* C16: when transferFile has ended the stream of a non-empty file, the chunks
\* start at the requested offset and follow each other without gap, all but the
\* last hold chunk_size bytes and the last holds 1..chunk_size, together they
\* are the file's bytes from the offset to the end, and the last chunk, and
\* only it, has is_last and the checksum of the whole file.
C16_ChunkSequence ==
    (tf.pc = "ended" /\ tf.fileSize > 0)
        => LET n == Len(tfOut)
           IN  /\ n >= 1
               /\ tfOut[1].offset = tf.offset
               /\ \A i \in 1..(n - 1) :
                     /\ tfOut[i + 1].offset = tfOut[i].offset + tfOut[i].length
                     /\ tfOut[i].length = tf.chunk_size
                     /\ ~tfOut[i].is_last
                     /\ tfOut[i].checksum = NoSum
               /\ tfOut[n].length \in 1..tf.chunk_size
               /\ tfOut[n].offset + tfOut[n].length = tf.fileSize
               /\ tfOut[n].is_last
               /\ tfOut[n].checksum = FileChecksum(tf.fileSize)
               /\ tf.fileSize <= MaxTransferLen =>
                     Concat(tf.fileSize, tfOut)
                         = Slice(SrcBytes(tf.fileSize), tf.offset, tf.fileSize - tf.offset)

\* C17: when transferFile has ended the stream of a file of 0 bytes, it has
\* written exactly one chunk, of zero bytes, with is_last and the checksum of
\* the empty input.
C17_EmptyFileOneChunk ==
    (tf.pc = "ended" /\ tf.fileSize = 0)
        => /\ Len(tfOut) = 1
           /\ tfOut[1].length = 0
           /\ tfOut[1].is_last
           /\ tfOut[1].checksum = Sha(<<>>)

\* the transfer of Scenario C has ended its stream
ScenarioEnded ==
    /\ tf.pc = "ended"
    /\ tf.fileSize = ScenarioC.fileSize
    /\ tf.chunk_size = ScenarioC.chunk_size
    /\ tf.offset = 0

FullChunks == {i \in 1..Len(tfOut) : tfOut[i].length = tf.chunk_size}
PartialChunks == {i \in 1..Len(tfOut) : tfOut[i].length < tf.chunk_size}

MaxRetries == 3
RetryDelay == 1000

Clients == {"PeerGrpcClient", "DirectoryGrpcClient"}
\* the errors an attempt can be rejected with
Errors == {"UNAVAILABLE", "DEADLINE_EXCEEDED", "checksum", "NOT_FOUND", "INVALID_ARGUMENT"}

\* a wait that does not grow with the attempt
FixedDelay(attempt) == RetryDelay
\* this.config.retryDelay * attempt
DelayAfter(attempt) == RetryDelay * attempt

\* catch (error) of the loop body after attempt `attempt` failed: whether the
\* loop waits and goes on, or is left with the error to throw
RetriesLeft(attempt) == attempt < MaxRetries

RtIdle == [client |-> "none", pc |-> "idle", attempt |-> 0, lastError |-> "none",
           thrown |-> "none"]

RtInit ==
    /\ rt = RtIdle
    /\ rtErrors = <<>>
    /\ rtWaits = <<>>

\* withRetry(operation): attempt 1 calls the operation
WithRetry(client) ==
    /\ rt.pc = "idle"
    /\ rt' = [RtIdle EXCEPT !.client = client, !.pc = "attempt", !.attempt = 1]
    /\ UNCHANGED <<rtErrors, rtWaits>>
    /\ RtFrame

\* the operation resolves: return await operation.apply(this, args)
OperationResolves ==
    /\ rt.pc = "attempt"
    /\ rt' = [rt EXCEPT !.pc = "returned"]
    /\ UNCHANGED <<rtErrors, rtWaits>>
    /\ RtFrame

\* the operation rejects: lastError = error, then the delay if attempts are
\* left, else the loop ends and lastError is thrown
OperationRejects(error) ==
    /\ rt.pc = "attempt"
    /\ rtErrors' = Append(rtErrors, error)
    /\ IF RetriesLeft(rt.attempt)
       THEN /\ rt' = [rt EXCEPT !.pc = "delay", !.lastError = error]
            /\ rtWaits' = Append(rtWaits, DelayAfter(rt.attempt))
       ELSE /\ rt' = [rt EXCEPT !.pc = "thrown", !.lastError = error, !.thrown = error]
            /\ UNCHANGED rtWaits
    /\ RtFrame

\* the delay is over: attempt++ and the operation is called again
DelayElapsed ==
    /\ rt.pc = "delay"
    /\ rt' = [rt EXCEPT !.pc = "attempt", !.attempt = rt.attempt + 1]
    /\ UNCHANGED <<rtErrors, rtWaits>>
    /\ RtFrame

RtNext ==
    \/ \E client \in Clients : WithRetry(client)
    \/ OperationResolves
    \/ \E error \in Errors : OperationRejects(error)
    \/ DelayElapsed

\* C20: withRetry makes at most 3 attempts, each a call of the whole operation;
\* the wait after the k-th failed attempt is 1000 * k ms and none follows the
\* third; the first success ends the loop; after the third failure the error
\* of the third attempt is thrown.
C20_RetryPolicy ==
    /\ rt.attempt <= 3
    /\ Len(rtErrors) <= 3
    /\ Len(rtWaits) <= 2
    /\ \A k \in 1..Len(rtWaits) : rtWaits[k] = 1000 * k
    /\ rt.pc = "attempt" => Len(rtErrors) = rt.attempt - 1 /\ Len(rtWaits) = rt.attempt - 1
    /\ rt.pc = "delay" => Len(rtErrors) = rt.attempt /\ Len(rtWaits) = rt.attempt
    /\ rt.pc = "returned" => Len(rtErrors) = rt.attempt - 1 /\ Len(rtWaits) = rt.attempt - 1
    /\ rt.pc = "thrown" =>
          /\ rt.attempt = 3
          /\ Len(rtErrors) = 3
          /\ rtWaits = <<1000, 2000>>
          /\ rt.thrown = rtErrors[3]

\* C20: three attempts have failed, with different errors, and the last one
\* has been thrown.
C20_Witness ==
    /\ rt.pc = "thrown"
    /\ rtErrors = <<"UNAVAILABLE", "DEADLINE_EXCEEDED", "checksum">>
    /\ rt.thrown = "checksum"

\* C21: a call whose first attempt fails with NOT_FOUND or INVALID_ARGUMENT
\* makes exactly one attempt and surfaces that error: the loop is left with
\* the error thrown, no wait and no second attempt.
C21_NonTransientNotRetried ==
    (Len(rtErrors) >= 1 /\ rtErrors[1] \in {"NOT_FOUND", "INVALID_ARGUMENT"})
        => (rt.attempt = 1 /\ rt.pc = "thrown" /\ rt.thrown = rtErrors[1] /\ rtWaits = <<>>)

(***************************************************************************)
(* PeerGrpcClient.downloadFile through withRetry: the attempts of one call *)
(***************************************************************************)
\* the stream of an attempt is over and none of its handlers is still running
DlAttemptOver ==
    /\ dlState \in {"ended", "errored"}
    /\ dlTasks = {}
    /\ dlEndPc \in {"idle", "done"}
    /\ dlErrPc \in {"idle", "done"}

\* the operation passed to withRetry: a new promise, a new TransferFile call from
\* offset 0, new locals and handlers; the file at savePath is whatever is there
StartAttempt(source) ==
    /\ dlSource' = source
    /\ dlWire' = TransferStream(source)
    /\ dlState' = "open"
    /\ dl' = DlLocals
    /\ dlTasks' = {}
    /\ dlEndPc' = "idle"
    /\ dlErrPc' = "idle"
    /\ outcome' = "pending"
    /\ dlVerified' = FALSE
    /\ UNCHANGED saved

\* downloadFile(address, port, filename, savePath): withRetry's first attempt
DownloadFile(source) ==
    /\ rt.pc = "idle"
    /\ dlState = "none"
    /\ rt' = [RtIdle EXCEPT !.client = "PeerGrpcClient", !.pc = "attempt", !.attempt = 1]
    /\ StartAttempt(source)
    /\ UNCHANGED <<rtErrors, rtWaits, regVars, dirVars, rxVars, tfVars, peerVars>>

\* the promise of the attempt is resolved: withRetry returns
AttemptResolves ==
    /\ outcome = "resolved"
    /\ OperationResolves

\* the promise of the attempt is rejected: withRetry's catch
AttemptRejects ==
    /\ outcome = "rejected"
    /\ OperationRejects("downloadFile")

\* the delay is over and the operation is called again; taken here once the
\* stream of the attempt before is over and its handlers have run
DownloadRetry ==
    /\ rt.pc = "delay"
    /\ DlAttemptOver
    /\ rt' = [rt EXCEPT !.pc = "attempt", !.attempt = rt.attempt + 1]
    /\ StartAttempt(dlSource)
    /\ UNCHANGED <<rtErrors, rtWaits, regVars, dirVars, rxVars, tfVars, peerVars>>

DownloadNext ==
    \/ \E source \in Sources : DownloadFile(source)
    \/ AttemptResolves
    \/ AttemptRejects
    \/ DownloadRetry
    \/ DlData
    \/ \E t \in dlTasks : DlOpenEffect(t)
    \/ \E t \in dlTasks : DlOpenResume(t)
    \/ \E t \in dlTasks : DlWriteDone(t)
    \/ \E t \in dlTasks : DlWriteFail(t)
    \/ DlEnd
    \/ DlEndClose
    \/ DlEndHash
    \/ DlEndUnlink
    \/ DlStreamError
    \/ DlErrClose
    \/ DlErrUnlink

\* downloadFile has failed for good: the third attempt was rejected, its stream
\* is over and its handlers have run
FinalFailure ==
    /\ rt.client = "PeerGrpcClient"
    /\ rt.pc = "thrown"
    /\ DlAttemptOver

\* C19: when downloadFile has finally failed, no partially written file is left
\* at savePath: there is no file there, or the file has the whole content of
\* the source.
C19_NoPartialFileAfterFinalFailure ==
    FinalFailure => (~saved.exists \/ saved.data = dlSource.data)

(***************************************************************************)
(* BootstrapService (peer-discovery/bootstrap.js) and the auto-connect of  *)
(* P2PServer.start                                                         *)
(***************************************************************************)
\* this.maxRetries and this.retryDelay of BootstrapService
BootMaxRetries == 5
BootRetryDelay == 5000

BootSlots == 1..MaxBootCalls

\* a delay that grows by retryDelay per attempt
LinearBackoff(retryCount) == BootRetryDelay * retryCount
\* this.retryDelay * Math.pow(2, this.retryCount - 1), retryCount already incremented
Backoff(retryCount) == BootRetryDelay * 2^(retryCount - 1)

\* connectToNetwork after the registration answered, without the reset of retryCount
AfterRegistrationKeepCount(b, success) ==
    IF success THEN [b EXCEPT !.isRegistered = TRUE] ELSE b
\* connectToNetwork after the registration answered: isRegistered and retryCount
AfterRegistration(b, success) ==
    IF success THEN [b EXCEPT !.isRegistered = TRUE, !.retryCount = 0] ELSE b

\* a slot with no call; origin: "start" (auto-connect), "timer" (periodic
\* update), "retry" (retryConnection); probe and reg: what checkHealth and the
\* registration of this call answered
BootIdle == [pc |-> "idle", origin |-> "none", probe |-> "none", reg |-> "none",
             result |-> "none"]

BootInit ==
    /\ boot = [isRegistered |-> FALSE, retryCount |-> 0, updateInterval |-> FALSE]
    /\ bcalls = [c \in BootSlots |-> BootIdle]
    /\ phase = "init"
    /\ trackerUp = FALSE
    /\ wasUp = FALSE
    /\ bwaits = <<>>
    /\ connects = [start |-> 0, timer |-> 0, retry |-> 0]
    /\ registrations = 0

ConnectsTotal == connects.start + connects.timer + connects.retry

\* connectToNetwork is entered by the call of slot c: up to its await of checkHealth
EnterConnect(c, origin) ==
    /\ bcalls' = [bcalls EXCEPT ![c] = [BootIdle EXCEPT !.pc = "probe", !.origin = origin]]
    /\ connects' = [connects EXCEPT ![origin] = connects[origin] + 1]

\* the directory server starts or stops answering
TrackerChange ==
    /\ trackerUp' = ~trackerUp
    /\ wasUp' = TRUE
    /\ UNCHANGED <<boot, bcalls, phase, bwaits, connects, registrations>>
    /\ BootFrame

\* P2PServer.start: the auto-connect callback calls connectToNetwork
AutoConnect(c) ==
    /\ phase = "init"
    /\ bcalls[c].pc = "idle"
    /\ phase' = "connecting"
    /\ EnterConnect(c, "start")
    /\ UNCHANGED <<boot, trackerUp, wasUp, bwaits, registrations>>
    /\ BootFrame

\* a tick of the interval of startPeriodicUpdates: updateRegistration, which
\* calls connectToNetwork when not registered and else sends the registration
UpdateTick(c) ==
    /\ boot.updateInterval
    /\ bcalls[c].pc = "idle"
    /\ connects.timer < MaxTicks
    /\ IF ~boot.isRegistered
       THEN EnterConnect(c, "timer")
       ELSE /\ bcalls' = [bcalls EXCEPT ![c] = [BootIdle EXCEPT !.pc = "update", !.origin = "timer"]]
            /\ UNCHANGED connects
    /\ UNCHANGED <<boot, phase, trackerUp, wasUp, bwaits, registrations>>
    /\ BootFrame

\* retryConnection is called: the check of retryCount, the increment and the
\* start of the delay
RetryConnection(c) ==
    /\ bcalls[c].pc = "idle"
    /\ IF boot.retryCount >= BootMaxRetries
       THEN /\ bcalls' = [bcalls EXCEPT ![c] = [BootIdle EXCEPT !.pc = "returned",
                              !.origin = "retry", !.result = "Max retries exceeded"]]
            /\ UNCHANGED <<boot, bwaits>>
       ELSE /\ Len(bwaits) < MaxWaits
            /\ boot' = [boot EXCEPT !.retryCount = boot.retryCount + 1]
            /\ bwaits' = Append(bwaits, Backoff(boot.retryCount + 1))
            /\ bcalls' = [bcalls EXCEPT ![c] = [BootIdle EXCEPT !.pc = "delay", !.origin = "retry"]]
    /\ UNCHANGED <<phase, trackerUp, wasUp, connects, registrations>>
    /\ BootFrame

\* the delay of retryConnection is over: connectToNetwork
RetryDelayOver(c) ==
    /\ bcalls[c].pc = "delay"
    /\ EnterConnect(c, "retry")
    /\ UNCHANGED <<boot, phase, trackerUp, wasUp, bwaits, registrations>>
    /\ BootFrame

\* checkHealth answers: not available throws into the catch, which returns
\* success false; available goes on to registerWithDirectoryServer
ProbeDone(c) ==
    /\ bcalls[c].pc = "probe"
    /\ IF trackerUp
       THEN /\ bcalls' = [bcalls EXCEPT ![c].pc = "register", ![c].probe = "ok"]
            /\ registrations' = registrations + 1
       ELSE /\ bcalls' = [bcalls EXCEPT ![c].pc = "returned", ![c].probe = "failed",
                                        ![c].result = "fail"]
            /\ UNCHANGED registrations
    /\ UNCHANGED <<boot, phase, trackerUp, wasUp, bwaits, connects>>
    /\ BootFrame

\* the registration answers (success, or a failure answer or no answer)
RegistrationDone(c, success) ==
    /\ bcalls[c].pc = "register"
    /\ success => trackerUp
    /\ boot' = AfterRegistration(boot, success)
    /\ bcalls' = [bcalls EXCEPT ![c].pc = "returned",
                                ![c].reg = IF success THEN "ok" ELSE "failed",
                                ![c].result = IF success THEN "success" ELSE "fail"]
    /\ UNCHANGED <<phase, trackerUp, wasUp, bwaits, connects, registrations>>
    /\ BootFrame

\* updateRegistration of a registered peer: its registerPeer answers
UpdateDone(c, success) ==
    /\ bcalls[c].pc = "update"
    /\ success => trackerUp
    /\ bcalls' = [bcalls EXCEPT ![c].pc = "returned",
                                ![c].result = IF success THEN "success" ELSE "fail"]
    /\ UNCHANGED <<boot, phase, trackerUp, wasUp, bwaits, connects, registrations>>
    /\ BootFrame

\* the caller resumes with the result; the auto-connect callback goes on to
\* startPeriodicUpdates whatever connectToNetwork returned
BootReturn(c) ==
    /\ bcalls[c].pc = "returned"
    /\ bcalls' = [bcalls EXCEPT ![c] = BootIdle]
    /\ IF bcalls[c].origin = "start"
       THEN phase' = "started" /\ boot' = [boot EXCEPT !.updateInterval = TRUE]
       ELSE UNCHANGED <<phase, boot>>
    /\ UNCHANGED <<trackerUp, wasUp, bwaits, connects, registrations>>
    /\ BootFrame

BootNext ==
    \/ TrackerChange
    \/ \E c \in BootSlots : AutoConnect(c)
    \/ \E c \in BootSlots : UpdateTick(c)
    \/ \E c \in BootSlots : RetryConnection(c)
    \/ \E c \in BootSlots : RetryDelayOver(c)
    \/ \E c \in BootSlots : ProbeDone(c)
    \/ \E c \in BootSlots, success \in BOOLEAN : RegistrationDone(c, success)
    \/ \E c \in BootSlots, success \in BOOLEAN : UpdateDone(c, success)
    \/ \E c \in BootSlots : BootReturn(c)

\* C23: while the directory server has never answered, the peer makes at most
\* 6 calls of connectToNetwork (the initial one and 5 retries), the periodic
\* update included.
C23_BoundedAttempts ==
    ~wasUp => ConnectsTotal <= 6

\* C24: as long as no connection succeeded, the delays awaited by successive
\* retryConnection calls are 5000, 10000, 20000, 40000, 80000 ms, one per
\* increment of retryCount; there is no sixth delay, retryConnection calls
\* connectToNetwork only after a delay, and the call made with retryCount = 5
\* returns 'Max retries exceeded'.
C24_BackoffGrowth ==
    /\ ~boot.isRegistered =>
          /\ Len(bwaits) <= 5
          /\ Len(bwaits) = boot.retryCount
          /\ \A k \in 1..Len(bwaits) : bwaits[k] = <<5000, 10000, 20000, 40000, 80000>>[k]
    /\ connects.retry <= Len(bwaits)
    /\ \A c \in BootSlots :
          bcalls[c].result = "Max retries exceeded" =>
              /\ bcalls[c].probe = "none"
              /\ boot.isRegistered \/ Len(bwaits) = 5

\* C24: five retries have waited and failed, and a sixth retryConnection has
\* returned 'Max retries exceeded'.
C24_Witness ==
    /\ ~boot.isRegistered
    /\ bwaits = <<5000, 10000, 20000, 40000, 80000>>
    /\ connects.retry = 5
    /\ \E c \in BootSlots : bcalls[c].result = "Max retries exceeded"

\* a connectToNetwork call of slot c has just returned
ConnectReturns(c) ==
    /\ bcalls[c].pc \in {"probe", "register"}
    /\ bcalls'[c].pc = "returned"

TimerRuns == {c \in BootSlots : bcalls[c].origin = "timer" /\ bcalls[c].pc # "returned"}

\* C26: at most one updateRegistration started by the timer is in progress.
C26_NoOverlappingUpdates ==
    Cardinality(TimerRuns) <= 1

(***************************************************************************)
(* HealthCheckService (peer-discovery/health-check.js)                     *)
(***************************************************************************)
CheckNames == {"directoryServer", "friendPrimary", "friendBackup", "self"}

\* the status each check can report
ServiceStatuses == {"healthy", "unhealthy", "error"}
FriendStatuses == {"online", "offline", "error"}

\* the constructor: every cached result is 'unknown'
InitialHealthStatus ==
    [isHealthy |-> FALSE, directoryServer |-> "unknown", friendPrimary |-> "unknown",
     friendBackup |-> "unknown"]

NoRun == [pc |-> "idle",
          checks |-> [n \in CheckNames |-> "pending"]]
NoResults == [done |-> FALSE, overallHealth |-> "none",
              checks |-> [n \in CheckNames |-> "pending"]]

HcInit ==
    /\ hcConfig = [set |-> FALSE, friendPrimary |-> FALSE, friendBackup |-> FALSE]
    /\ healthStatus = InitialHealthStatus
    /\ hcRun = NoRun
    /\ hcLast = NoResults

\* the checks that failed: every status other than 'healthy' and 'online'
FailedChecks(checks) == {n \in CheckNames : checks[n] \notin {"healthy", "online"}}

\* the classification that leaves the checks that are not configured out of the tally
OverallHealthConfigured(checks) ==
    LET configured == {n \in CheckNames : checks[n] # "not_configured"}
        failed == FailedChecks(checks) \cap configured
    IN  IF failed = {} THEN "healthy"
        ELSE IF failed = configured THEN "unhealthy"
        ELSE "degraded"

\* performHealthCheck: "Determine overall health"
OverallHealth(checks) ==
    IF Cardinality(FailedChecks(checks)) = 0 THEN "healthy"
    ELSE IF Cardinality(FailedChecks(checks)) < Cardinality(DOMAIN checks) THEN "degraded"
    ELSE "unhealthy"

\* getHealthStatus(): the fields of this.healthStatus
GetHealthStatus == healthStatus

\* the result of the check `name` that getHealthStatus exposes
Exposed(name) ==
    IF name \in DOMAIN GetHealthStatus THEN GetHealthStatus[name] ELSE "absent"

\* new HealthCheckService(config)
HcConstruct(friendPrimary, friendBackup) ==
    /\ ~hcConfig.set
    /\ hcConfig' = [set |-> TRUE, friendPrimary |-> friendPrimary, friendBackup |-> friendBackup]
    /\ UNCHANGED <<healthStatus, hcRun, hcLast>>
    /\ HcFrame

\* performHealthCheck starts its four checks
PerformHealthCheck ==
    /\ hcConfig.set
    /\ hcRun.pc = "idle"
    /\ hcRun' = [NoRun EXCEPT !.pc = "checking"]
    /\ UNCHANGED <<hcConfig, healthStatus, hcLast>>
    /\ HcFrame

\* checkDirectoryServer completes: the result is cached and returned
CheckDirectoryServer(status) ==
    /\ hcRun.pc = "checking"
    /\ hcRun.checks.directoryServer = "pending"
    /\ hcRun' = [hcRun EXCEPT !.checks.directoryServer = status]
    /\ healthStatus' = [healthStatus EXCEPT !.directoryServer = status]
    /\ UNCHANGED <<hcConfig, hcLast>>
    /\ HcFrame

\* checkFriendPrimary / checkFriendBackup complete: 'not_configured' is returned
\* without being cached, every other result is cached and returned
CheckFriend(name, status) ==
    /\ hcRun.pc = "checking"
    /\ hcRun.checks[name] = "pending"
    /\ IF ~hcConfig[name]
       THEN /\ hcRun' = [hcRun EXCEPT !.checks[name] = "not_configured"]
            /\ UNCHANGED healthStatus
       ELSE /\ hcRun' = [hcRun EXCEPT !.checks[name] = status]
            /\ healthStatus' = [healthStatus EXCEPT ![name] = status]
    /\ UNCHANGED <<hcConfig, hcLast>>
    /\ HcFrame

\* checkSelfHealth completes: the result is returned
CheckSelfHealth(status) ==
    /\ hcRun.pc = "checking"
    /\ hcRun.checks.self = "pending"
    /\ hcRun' = [hcRun EXCEPT !.checks.self = status]
    /\ UNCHANGED <<hcConfig, healthStatus, hcLast>>
    /\ HcFrame

\* all four checks are settled: the classification, isHealthy, the results
Classify ==
    /\ hcRun.pc = "checking"
    /\ \A n \in CheckNames : hcRun.checks[n] # "pending"
    /\ healthStatus' = [healthStatus EXCEPT
                            !.isHealthy = (OverallHealth(hcRun.checks) = "healthy")]
    /\ hcLast' = [done |-> TRUE, overallHealth |-> OverallHealth(hcRun.checks),
                  checks |-> hcRun.checks]
    /\ hcRun' = NoRun
    /\ UNCHANGED hcConfig
    /\ HcFrame

HcNext ==
    \/ \E friendPrimary, friendBackup \in BOOLEAN : HcConstruct(friendPrimary, friendBackup)
    \/ PerformHealthCheck
    \/ \E status \in ServiceStatuses : CheckDirectoryServer(status)
    \/ \E name \in {"friendPrimary", "friendBackup"}, status \in FriendStatuses :
            CheckFriend(name, status)
    \/ \E status \in ServiceStatuses : CheckSelfHealth(status)
    \/ Classify

\* C27: the overall health a performHealthCheck returns is healthy iff every
\* configured check succeeded, unhealthy iff every configured check failed and
\* degraded otherwise, checks reporting 'not_configured' left out of the tally.
C27_ClassificationOverConfigured ==
    hcLast.done => hcLast.overallHealth = OverallHealthConfigured(hcLast.checks)

\* C28: between ticks getHealthStatus exposes the result of each of the four
\* checks of the last performHealthCheck, and isHealthy is true iff that run
\* was classified healthy.
C28_CachedResults ==
    (hcLast.done /\ hcRun.pc = "idle") =>
        /\ \A n \in CheckNames : Exposed(n) = hcLast.checks[n]
        /\ healthStatus.isHealthy <=> (hcLast.overallHealth = "healthy")

\* getHealthSummary(): overallHealth from isHealthy, healthyServices from the
\* cached results of the directory server and the two neighbours
GetHealthSummary ==
    [overallHealth |-> IF healthStatus.isHealthy THEN "healthy" ELSE "unhealthy",
     healthyServices |->
         Cardinality({n \in {"directoryServer"} : healthStatus[n] = "healthy"}
                     \cup {n \in {"friendPrimary", "friendBackup"} : healthStatus[n] = "online"}),
     totalServices |-> 3]

\* C40: after a performHealthCheck, getHealthSummary reports the overallHealth
\* that run returned, and healthyServices is the number of checks that passed
\* in that run.
C40_SummaryAgrees ==
    (hcLast.done /\ hcRun.pc = "idle") =>
        /\ GetHealthSummary.overallHealth = hcLast.overallHealth
        /\ GetHealthSummary.healthyServices
               = Cardinality({n \in CheckNames : hcLast.checks[n] \in {"healthy", "online"}})

(***************************************************************************)
(* UploadService.uploadFile (microservices/transfer-service/               *)
(* download.service.js)                                                    *)
(***************************************************************************)
UpFrame ==
    UNCHANGED <<regVars, dirVars, rxVars, dlVars, tfVars, rtVars, bootVars, hcVars, cmVars,
                lifeVars, loadVars, sessVars>>

UploadNames == {"a.txt", "c.exe"}
\* where createBackup(filePath) puts its copy
BackupPath(filename) == IF filename = "a.txt" THEN "a.txt.backup" ELSE "c.exe.backup"
UploadPaths == UploadNames \cup {BackupPath(f) : f \in UploadNames}
Contents == {<<>>, <<1>>, <<2>>}

Absent == [exists |-> FALSE, content |-> <<>>]
UploadRequests ==
    [filename : UploadNames, content : Contents, overwrite : BOOLEAN, validate : BOOLEAN]

UpIdle == [pc |-> "idle", filename |-> "", content |-> <<>>, overwrite |-> FALSE,
           validate |-> FALSE, before |-> Absent, success |-> FALSE]

UpInit ==
    /\ sdir = [path \in UploadPaths |-> Absent]
    /\ up = UpIdle

\* path.extname(filename)
ExtName(filename) == IF filename = "c.exe" THEN ".exe" ELSE ".txt"
AllowedExtensions == {".txt", ".js", ".json", ".md", ".log", ".csv", ".xml", ".html", ".css"}

\* validateFile(fileData).valid
ValidateFile(fileData) ==
    /\ fileData.filename # ""
    /\ ExtName(fileData.filename) \in AllowedExtensions
    /\ Len(fileData.content) # 0

\* uploadFile up to its await on mkdir; a file that fails validation throws
\* into the catch, which returns success false
UploadFile(request) ==
    /\ up.pc = "idle"
    /\ up' = [pc |-> IF request.validate /\ ~ValidateFile(request) THEN "returned" ELSE "check",
              filename |-> request.filename, content |-> request.content,
              overwrite |-> request.overwrite, validate |-> request.validate,
              before |-> sdir[request.filename], success |-> FALSE]
    /\ UNCHANGED sdir
    /\ UpFrame

\* fileExists(filePath) answered: an existing file without overwrite throws
UploadCheck ==
    /\ up.pc = "check"
    /\ up' = [up EXCEPT !.pc = IF sdir[up.filename].exists /\ ~up.overwrite
                               THEN "returned" ELSE "write"]
    /\ UNCHANGED sdir
    /\ UpFrame

\* fs.writeFile(filePath, buffer), then stat and hash, and the result
UploadWrite ==
    /\ up.pc = "write"
    /\ sdir' = [sdir EXCEPT ![up.filename] = [exists |-> TRUE, content |-> up.content]]
    /\ up' = [up EXCEPT !.pc = "returned", !.success = TRUE]
    /\ UpFrame

\* the caller takes the result
UploadReturn ==
    /\ up.pc = "returned"
    /\ up' = UpIdle
    /\ UNCHANGED sdir
    /\ UpFrame

UpNext ==
    \/ \E request \in UploadRequests : UploadFile(request)
    \/ UploadCheck
    \/ UploadWrite
    \/ UploadReturn

\* C33: an uploadFile with overwrite = true that replaces an existing file
\* leaves a backup copy holding the previous content; with overwrite = false
\* the existing file is left as it was and the upload fails.
C33_BackupOnOverwrite ==
    (up.pc = "returned" /\ up.before.exists) =>
        IF up.overwrite
        THEN up.success => sdir[BackupPath(up.filename)] = up.before
        ELSE ~up.success /\ sdir[up.filename] = up.before

(***************************************************************************)
(* Two ReceiveFile calls at once on one PeerGrpcService                    *)
(***************************************************************************)
SessFrame ==
    UNCHANGED <<regVars, dirVars, rxVars, dlVars, tfVars, rtVars, bootVars, hcVars, cmVars,
                lifeVars, loadVars, upVars>>

Sessions == {1, 2}
SessNames == {"f.txt", "g.txt"}

\* what a sender streams: the bytes, and whether the size it announces is theirs
SessSenders(s) ==
    [filename : SessNames, data : {<<s>>, <<s, s>>}, kind : {"uploadFile", "wrong_size"}]

NoSession == [pc |-> "none", filename |-> "", data |-> <<>>, kind |-> "none", sent |-> 0,
              fileInfo |-> NoInfo, filePath |-> "", fileHandle |-> FALSE,
              receivedBytes |-> 0, reply |-> "none"]

SessInit ==
    /\ rs = [s \in Sessions |-> NoSession]
    /\ rdir = [f \in SessNames |-> NoFile]

\* a client opens a ReceiveFile stream: receiveFile installs its handlers
SessOpen(s, sender) ==
    /\ rs[s].pc = "none"
    /\ rs' = [rs EXCEPT ![s] = [NoSession EXCEPT !.pc = "open", !.filename = sender.filename,
                                                !.data = sender.data, !.kind = sender.kind]]
    /\ UNCHANGED rdir
    /\ SessFrame

\* the 'data' handler on the file_info message: fileInfo, filePath, and
\* fileHandle = await fs.open(filePath, 'w')
SessFileInfo(s) ==
    /\ rs[s].pc = "open"
    /\ ~rs[s].fileInfo.has
    /\ rs' = [rs EXCEPT ![s].fileInfo =
                             [has |-> TRUE,
                              total_size |-> IF rs[s].kind = "wrong_size"
                                             THEN Len(rs[s].data) + 1 ELSE Len(rs[s].data),
                              checksum |-> Sha(rs[s].data)],
                         ![s].filePath = rs[s].filename,
                         ![s].fileHandle = TRUE]
    /\ rdir' = [rdir EXCEPT ![rs[s].filename] = OpenW(rdir[rs[s].filename], s)]
    /\ SessFrame

\* the 'data' handler on a chunk: write at receivedBytes, receivedBytes += length
SessChunk(s) ==
    /\ rs[s].pc = "open"
    /\ rs[s].fileHandle
    /\ rs[s].sent < Len(rs[s].data)
    /\ rdir' = [rdir EXCEPT ![rs[s].filePath] =
                     WriteFile(rdir[rs[s].filePath], s, rs[s].receivedBytes,
                               <<rs[s].data[rs[s].sent + 1]>>)]
    /\ rs' = [rs EXCEPT ![s].sent = rs[s].sent + 1,
                         ![s].receivedBytes = rs[s].receivedBytes + 1]
    /\ SessFrame

\* the 'end' handler: close; a size mismatch unlinks the path and answers
\* DATA_LOSS; so does a checksum mismatch; a path that is not there makes
\* unlink or readFile throw into the catch, which answers INTERNAL; else success
SessEnd(s) ==
    /\ rs[s].pc = "open"
    /\ rs[s].fileHandle
    /\ rs[s].sent = Len(rs[s].data)
    /\ LET file == rdir[rs[s].filePath]
           closed == [file EXCEPT !.linked = file.linked \ {s}]
       IN  IF rs[s].receivedBytes # rs[s].fileInfo.total_size
           THEN /\ rdir' = [rdir EXCEPT ![rs[s].filePath] = Unlink(closed)]
                /\ rs' = [rs EXCEPT ![s].pc = "ended", ![s].fileHandle = FALSE,
                                     ![s].reply = IF file.exists THEN "DATA_LOSS"
                                                  ELSE "INTERNAL"]
           ELSE IF ~file.exists
           THEN /\ rdir' = [rdir EXCEPT ![rs[s].filePath] = closed]
                /\ rs' = [rs EXCEPT ![s].pc = "ended", ![s].fileHandle = FALSE,
                                     ![s].reply = "INTERNAL"]
           ELSE IF Sha(file.data) # rs[s].fileInfo.checksum
           THEN /\ rdir' = [rdir EXCEPT ![rs[s].filePath] = Unlink(closed)]
                /\ rs' = [rs EXCEPT ![s].pc = "ended", ![s].fileHandle = FALSE,
                                     ![s].reply = "DATA_LOSS"]
           ELSE /\ rdir' = [rdir EXCEPT ![rs[s].filePath] = closed]
                /\ rs' = [rs EXCEPT ![s].pc = "ended", ![s].fileHandle = FALSE,
                                     ![s].reply = "OK"]
    /\ SessFrame

SessNext ==
    \/ \E s \in Sessions : \E sender \in SessSenders(s) : SessOpen(s, sender)
    \/ \E s \in Sessions : SessFileInfo(s)
    \/ \E s \in Sessions : SessChunk(s)
    \/ \E s \in Sessions : SessEnd(s)

\* C32: when two ReceiveFile calls served at the same time are both over, each
\* has the outcome it would have alone: a stream whose announced size is right
\* has succeeded and its complete file is there, one whose size is wrong has
\* failed with DATA_LOSS (where both announce one name with the right size,
\* only one file can be there, and nothing is said of that case).
C32_SessionsIndependent ==
    (\A s \in Sessions : rs[s].pc = "ended") =>
        \A s \in Sessions :
            IF rs[s].kind = "wrong_size"
            THEN rs[s].reply = "DATA_LOSS"
            ELSE (\A t \in Sessions \ {s} :
                      rs[t].filename = rs[s].filename => rs[t].kind = "wrong_size")
                 => /\ rs[s].reply = "OK"
                    /\ rdir[rs[s].filename].exists
                    /\ rdir[rs[s].filename].data = rs[s].data

(***************************************************************************)
(* RegistryService: the constructor and loadRegistry                       *)
(***************************************************************************)
LoadFrame ==
    UNCHANGED <<dirVars, rxVars, dlVars, tfVars, rtVars, bootVars, hcVars, cmVars, lifeVars,
                upVars, sessVars>>

\* the load is over; the file it found absent has been written by its catch
LoadInit == ld = [pc |-> "done", file |-> TRUE, data |-> EmptyRegistry, restarts |-> 0]

\* the registry file exists: it was there at the start, or a save has written it
FileExists == ld.file \/ disk # EmptyRegistry

\* the server is started again: the constructor sets empty maps and calls
\* loadRegistry(), which runs to its await on readFile; the file of the
\* previous run is there unless it was removed meanwhile
Restart(fileKept) ==
    /\ ld.pc = "done"
    /\ ld.restarts < MaxRestarts
    /\ running = 0
    /\ \A c \in Slots : calls[c].pc = "idle"
    /\ peers' = EmptyMap
    /\ fileIndex' = EmptyMap
    /\ lin' = EmptyRegistry
    /\ disk' = IF fileKept THEN disk ELSE EmptyRegistry
    /\ ld' = [pc |-> "reading", file |-> fileKept, data |-> EmptyRegistry,
              restarts |-> ld.restarts + 1]
    /\ UNCHANGED <<calls, running, ops, saveErr>>
    /\ LoadFrame

\* readFile is carried out: the content of the file, or ENOENT
LoadRead ==
    /\ ld.pc = "reading"
    /\ ld' = IF FileExists THEN [ld EXCEPT !.pc = "read", !.data = disk]
             ELSE [ld EXCEPT !.pc = "missing"]
    /\ UNCHANGED regVars
    /\ LoadFrame

\* loadRegistry resumes with the content: this.peers = new Map(registry.peers),
\* this.fileIndex = new Map(registry.fileIndex)
LoadDone ==
    /\ ld.pc = "read"
    /\ running = 0
    /\ peers' = ld.data.peers
    /\ fileIndex' = ld.data.fileIndex
    /\ ld' = [ld EXCEPT !.pc = "done", !.data = EmptyRegistry]
    /\ UNCHANGED <<disk, calls, running, lin, ops, saveErr>>
    /\ LoadFrame

\* loadRegistry resumes in its catch: saveRegistry() up to its await on mkdir
LoadCatch ==
    /\ ld.pc = "missing"
    /\ running = 0
    /\ ld' = [ld EXCEPT !.pc = "saving"]
    /\ UNCHANGED regVars
    /\ LoadFrame

\* the saveRegistry of the catch writes the registry as it is now
LoadSave ==
    /\ ld.pc = "saving"
    /\ running = 0
    /\ disk' = Mem
    /\ ld' = [ld EXCEPT !.pc = "done", !.file = TRUE]
    /\ UNCHANGED <<peers, fileIndex, calls, running, lin, ops, saveErr>>
    /\ LoadFrame

\* registrations of at most one file
LoadRequests == {d \in Requests : Len(d.files) <= 1}

\* the server over a restart, with registrations served one at a time
LoadNext ==
    \/ \E fileKept \in BOOLEAN : Restart(fileKept)
    \/ LoadRead
    \/ LoadDone
    \/ LoadCatch
    \/ LoadSave
    \/ \E d \in LoadRequests : RegisterPeer(1, d)
    \/ RegUpdateIndex(1)
    \/ SaveBegin(1)
    \/ SaveSnapshot(1)
    \/ SaveWrite(1)
    \/ Return(1)

\* C34: when loadRegistry completes, every peer registered while it was in
\* progress is still registered, with the record its registerPeer stored.
C34_LoadKeepsRegistrations ==
    [][(ld.pc \in {"read", "saving"} /\ ld'.pc = "done") =>
          \A p \in DOMAIN peers : p \in DOMAIN peers' /\ peers'[p] = peers[p]]_vars

(***************************************************************************)
(* The periodic timers and the shutdown of a peer (server/p-servidor.js,   *)
(* bootstrap.js, health-check.js)                                          *)
(***************************************************************************)
LifeFrame ==
    UNCHANGED <<regVars, dirVars, rxVars, dlVars, tfVars, rtVars, bootVars, hcVars, cmVars, loadVars, upVars, sessVars>>

Services == {"bootstrap", "health"}
UpdateCalls == 1..MaxTimerTicks

NoTimer == [handle |-> 0, live |-> {}, starts |-> 0, ticks |-> 0, stopped |-> FALSE]

LifeInit ==
    /\ lphase = "init"
    /\ timer = [svc \in Services |-> NoTimer]
    /\ lreg = [isRegistered |-> FALSE, atTracker |-> FALSE, shut |-> "none"]
    /\ ucalls = [k \in UpdateCalls |-> "idle"]
    /\ net = {}

\* startPeriodicUpdates / startPeriodicChecks: this.updateInterval =
\* setInterval(...), whatever the handle held before
SetInterval(t) ==
    [t EXCEPT !.handle = t.starts + 1, !.live = t.live \cup {t.starts + 1},
              !.starts = t.starts + 1, !.stopped = FALSE]

\* stopPeriodicUpdates / stopPeriodicChecks: clearInterval of the handle kept,
\* if any
ClearInterval(t) ==
    IF t.handle # 0
    THEN [t EXCEPT !.live = t.live \ {t.handle}, !.handle = 0, !.stopped = TRUE]
    ELSE [t EXCEPT !.stopped = TRUE]

\* P2PServer.start: the auto-connect callback begins connectToNetwork
LcAutoConnect ==
    /\ lphase = "init"
    /\ lphase' = "connecting"
    /\ UNCHANGED <<timer, lreg, ucalls, net>>
    /\ LifeFrame

\* connectToNetwork returned: isRegistered on success; the callback then starts
\* the periodic updates and the periodic checks
LcAutoConnected(success) ==
    /\ lphase = "connecting"
    /\ \A svc \in Services : timer[svc].starts < MaxStarts
    /\ lphase' = "started"
    /\ lreg' = IF success THEN [lreg EXCEPT !.isRegistered = TRUE, !.atTracker = TRUE] ELSE lreg
    /\ timer' = [svc \in Services |-> SetInterval(timer[svc])]
    /\ UNCHANGED <<ucalls, net>>
    /\ LifeFrame

\* POST /bootstrap/start, POST /health/start
StartPeriodic(svc) ==
    /\ lphase # "init"
    /\ lreg.shut = "none"
    /\ timer[svc].starts < MaxStarts
    /\ timer' = [timer EXCEPT ![svc] = SetInterval(timer[svc])]
    /\ UNCHANGED <<lphase, lreg, ucalls, net>>
    /\ LifeFrame

\* POST /bootstrap/stop, POST /health/stop
StopPeriodic(svc) ==
    /\ lphase # "init"
    /\ lreg.shut = "none"
    /\ timer' = [timer EXCEPT ![svc] = ClearInterval(timer[svc])]
    /\ UNCHANGED <<lphase, lreg, ucalls, net>>
    /\ LifeFrame

\* an interval of the bootstrap service fires: updateRegistration up to its
\* first await (getCurrentFiles when registered, else checkHealth of
\* connectToNetwork)
UpdateTimerTick(id) ==
    /\ id \in timer["bootstrap"].live
    /\ timer["bootstrap"].ticks < MaxTimerTicks
    /\ lreg.shut # "done"
    /\ LET k == timer["bootstrap"].ticks + 1
       IN  ucalls' = [ucalls EXCEPT ![k] = IF lreg.isRegistered THEN "update" ELSE "connect"]
    /\ timer' = [timer EXCEPT !["bootstrap"].ticks = timer["bootstrap"].ticks + 1]
    /\ UNCHANGED <<lphase, lreg, net>>
    /\ LifeFrame

\* an interval of the health service fires: performHealthCheck
CheckTimerTick(id) ==
    /\ id \in timer["health"].live
    /\ timer["health"].ticks < MaxTimerTicks
    /\ lreg.shut # "done"
    /\ timer' = [timer EXCEPT !["health"].ticks = timer["health"].ticks + 1]
    /\ UNCHANGED <<lphase, lreg, ucalls, net>>
    /\ LifeFrame

\* the call of tick k sends its registerPeer request
UpdateSends(k) ==
    /\ ucalls[k] \in {"update", "connect"}
    /\ ucalls' = [ucalls EXCEPT ![k] = IF ucalls[k] = "update" THEN "update_sent" ELSE "connect_sent"]
    /\ net' = net \cup {[kind |-> "register", call |-> k]}
    /\ UNCHANGED <<lphase, timer, lreg>>
    /\ LifeFrame

\* the tracker serves a request of the peer: register stores the peer,
\* unregister removes it
TrackerServes(msg) ==
    /\ msg \in net
    /\ net' = net \ {msg}
    /\ IF msg.kind = "register"
       THEN /\ lreg' = [lreg EXCEPT !.atTracker = TRUE]
            /\ ucalls' = [ucalls EXCEPT ![msg.call] =
                              IF ucalls[msg.call] = "update_sent" THEN "update_answered"
                              ELSE "connect_answered"]
       ELSE /\ lreg' = [lreg EXCEPT !.atTracker = FALSE, !.shut = "answered"]
            /\ UNCHANGED ucalls
    /\ UNCHANGED <<lphase, timer>>
    /\ LifeFrame

\* the call of tick k resumes with the answer: connectToNetwork sets
\* isRegistered, updateRegistration only logs
UpdateReturns(k) ==
    /\ ucalls[k] \in {"update_answered", "connect_answered"}
    /\ ucalls' = [ucalls EXCEPT ![k] = "idle"]
    /\ lreg' = IF ucalls[k] = "connect_answered" THEN [lreg EXCEPT !.isRegistered = TRUE] ELSE lreg
    /\ UNCHANGED <<lphase, timer, net>>
    /\ LifeFrame

\* P2PServer.shutdown -> BootstrapService.shutdown: stopPeriodicUpdates, then
\* unregisterFromDirectoryServer if registered; HealthCheckService.shutdown
\* follows when the bootstrap service is done
Shutdown ==
    /\ lphase = "started"
    /\ lreg.shut = "none"
    /\ IF lreg.isRegistered
       THEN /\ net' = net \cup {[kind |-> "unregister", call |-> 0]}
            /\ lreg' = [lreg EXCEPT !.shut = "unregistering"]
            /\ timer' = [timer EXCEPT !["bootstrap"] = ClearInterval(timer["bootstrap"])]
       ELSE /\ lreg' = [lreg EXCEPT !.shut = "done"]
            /\ timer' = [svc \in Services |-> ClearInterval(timer[svc])]
            /\ UNCHANGED net
    /\ UNCHANGED <<lphase, ucalls>>
    /\ LifeFrame

\* unregisterFromDirectoryServer resumes with the answer: isRegistered = false;
\* shutdown goes on to the health service
ShutdownReturns ==
    /\ lreg.shut = "answered"
    /\ lreg' = [lreg EXCEPT !.isRegistered = FALSE, !.shut = "done"]
    /\ timer' = [timer EXCEPT !["health"] = ClearInterval(timer["health"])]
    /\ UNCHANGED <<lphase, ucalls, net>>
    /\ LifeFrame

LifeNext ==
    \/ LcAutoConnect
    \/ \E success \in BOOLEAN : LcAutoConnected(success)
    \/ \E svc \in Services : StartPeriodic(svc)
    \/ \E svc \in Services : StopPeriodic(svc)
    \/ \E id \in 1..MaxStarts : UpdateTimerTick(id)
    \/ \E id \in 1..MaxStarts : CheckTimerTick(id)
    \/ \E k \in UpdateCalls : UpdateSends(k)
    \/ \E msg \in net : TrackerServes(msg)
    \/ \E k \in UpdateCalls : UpdateReturns(k)
    \/ Shutdown
    \/ ShutdownReturns

\* C35: when shutdown is over and every request of the peer has been served,
\* the tracker does not hold the peer.
C35_ShutdownLeavesUnregistered ==
    (lreg.shut = "done" /\ lreg.isRegistered = FALSE /\ net = {}
        /\ \A k \in UpdateCalls : ucalls[k] = "idle")
        => ~lreg.atTracker

\* C37: once stopPeriodicUpdates / stopPeriodicChecks has returned, and until
\* the next start, no tick of that service fires.
C37_NoTickAfterStop ==
    [][\A svc \in Services :
          (timer[svc].stopped /\ timer'[svc].stopped) => timer'[svc].ticks = timer[svc].ticks]_vars

(***************************************************************************)
(* ConnectionManager (protocols/grpc/clients/connection.manager.js)        *)
(***************************************************************************)
\* `stateInfo.failures > 3` of performHealthChecks
ReconnectThreshold == 3

ConnNames == {"c1", "c2"}

\* grpc.connectivityState, for a channel that is not shut down; CONNECTING,
\* the state between two of these, is left out
ConnectivityStates == {"IDLE", "READY", "TRANSIENT_FAILURE"}

NoConnection == [present |-> FALSE, state |-> "none", failures |-> 0]
\* addConnection: the state is the string 'CONNECTING', which equals no value of
\* grpc.connectivityState
NewConnection == [present |-> TRUE, state |-> "'CONNECTING'", failures |-> 0]

CmInit ==
    /\ connectionStates = [n \in ConnNames |-> NoConnection]
    /\ channel = [n \in ConnNames |-> "IDLE"]
    /\ broken = {}
    /\ cmLast = [tick |-> FALSE, requested |-> {}]
    /\ watch = [n \in ConnNames |-> "none"]

\* a checkState that counts every change of state that does not reach READY
CheckStateCountAll(stateInfo, state) ==
    IF stateInfo.present /\ stateInfo.state # state
    THEN [stateInfo EXCEPT !.state = state,
                           !.failures = IF state = "READY" THEN 0 ELSE stateInfo.failures + 1]
    ELSE stateInfo
\* checkState of monitorConnection, given what getConnectivityState(false) returned
CheckStateInfo(stateInfo, state) ==
    IF stateInfo.present /\ stateInfo.state # state
    THEN [stateInfo EXCEPT !.state = state,
                           !.failures = IF state = "READY" THEN 0
                                        ELSE IF state = "TRANSIENT_FAILURE"
                                        THEN stateInfo.failures + 1
                                        ELSE stateInfo.failures]
    ELSE stateInfo

\* a reconnection at the threshold already
NeedsReconnectAtThreshold(stateInfo) == stateInfo.failures >= ReconnectThreshold
\* performHealthChecks: if (stateInfo.failures > 3)
NeedsReconnect(stateInfo) == stateInfo.failures > ReconnectThreshold

\* the connections performHealthChecks requests a reconnection on: those past
\* the threshold whose getChannel() does not throw
Reconnected ==
    {n \in ConnNames : /\ connectionStates[n].present
                       /\ NeedsReconnect(connectionStates[n])
                       /\ n \notin broken}

\* addConnection(name, client), with the checkState that monitorConnection runs
\* at once and its first watchConnectivity()
AddConnection(name) ==
    /\ ~connectionStates[name].present
    /\ connectionStates' = [connectionStates EXCEPT
                               ![name] = CheckStateInfo(NewConnection, channel[name])]
    /\ watch' = [watch EXCEPT ![name] = "armed"]
    /\ UNCHANGED <<channel, broken, cmLast>>
    /\ CmFrame

\* removeConnection(name)
RemoveConnection(name) ==
    /\ connectionStates[name].present
    /\ connectionStates' = [connectionStates EXCEPT ![name] = NoConnection]
    /\ channel' = [channel EXCEPT ![name] = "IDLE"]
    /\ broken' = broken \ {name}
    /\ watch' = [watch EXCEPT ![name] = "none"]
    /\ UNCHANGED cmLast
    /\ CmFrame

\* a watch that is armed sees the change of its channel
Triggered(w, changed) ==
    [n \in ConnNames |-> IF n \in changed /\ w[n] = "armed" THEN "triggered" ELSE w[n]]

\* the channel of a connection changes its connectivity state
ChannelChange(name, state) ==
    /\ connectionStates[name].present
    /\ channel[name] # state
    /\ state = "TRANSIENT_FAILURE" => connectionStates[name].failures < MaxFailures
    /\ channel' = [channel EXCEPT ![name] = state]
    /\ watch' = Triggered(watch, {name})
    /\ UNCHANGED <<connectionStates, broken, cmLast>>
    /\ CmFrame

\* client.getChannel() of a connection starts to throw
ChannelBreaks(name) ==
    /\ connectionStates[name].present
    /\ name \notin broken
    /\ broken' = broken \cup {name}
    /\ UNCHANGED <<connectionStates, channel, cmLast, watch>>
    /\ CmFrame

\* the callback of watchConnectivityState without error: checkState, then
\* setTimeout(watchConnectivity, 1000)
CheckState(name) ==
    /\ watch[name] = "triggered"
    /\ connectionStates' = [connectionStates EXCEPT
                               ![name] = CheckStateInfo(connectionStates[name], channel[name])]
    /\ watch' = [watch EXCEPT ![name] = "gap"]
    /\ UNCHANGED <<channel, broken, cmLast>>
    /\ CmFrame

\* the timeout is over: watchConnectivity() arms a watch on the state the
\* channel has now
WatchConnectivity(name) ==
    /\ watch[name] = "gap"
    /\ watch' = [watch EXCEPT ![name] = "armed"]
    /\ UNCHANGED <<connectionStates, channel, broken, cmLast>>
    /\ CmFrame

\* the deadline of the watch (healthCheckInterval) passes without a change: the
\* callback gets an error and arms nothing
WatchDeadline(name) ==
    /\ watch[name] = "armed"
    /\ watch' = [watch EXCEPT ![name] = "dead"]
    /\ UNCHANGED <<connectionStates, channel, broken, cmLast>>
    /\ CmFrame

\* a tick of startHealthChecks: performHealthChecks over all connections;
\* getConnectivityState(true) asks the channel to connect, and what comes of
\* it is a later change of the channel
PerformHealthChecks ==
    /\ cmLast' = [tick |-> ~cmLast.tick, requested |-> Reconnected]
    /\ UNCHANGED <<connectionStates, channel, broken, watch>>
    /\ CmFrame

CmNext ==
    \/ \E name \in ConnNames : AddConnection(name)
    \/ \E name \in ConnNames : RemoveConnection(name)
    \/ \E name \in ConnNames, state \in ConnectivityStates : ChannelChange(name, state)
    \/ \E name \in ConnNames : ChannelBreaks(name)
    \/ \E name \in ConnNames : CheckState(name)
    \/ \E name \in ConnNames : WatchConnectivity(name)
    \/ \E name \in ConnNames : WatchDeadline(name)
    \/ PerformHealthChecks

\* the event loop runs the callback of a watch that saw a change, and the
\* timeout that arms the next watch
CmFairness ==
    \A name \in ConnNames : WF_vars(CheckState(name)) /\ WF_vars(WatchConnectivity(name))

\* C31: while a connection is registered, a state of its channel that differs
\* from the state recorded is eventually recorded (or the connection removed).
C31_ChangesEventuallyRecorded ==
    \A n \in ConnNames :
        (connectionStates[n].present /\ connectionStates[n].state # channel[n])
            ~> (~connectionStates[n].present \/ connectionStates[n].state = channel[n])

\* C29: for every monitored connection, an observed change of state into
\* TRANSIENT_FAILURE adds one to failures, an observed change into READY sets
\* failures to 0, and no other step changes failures.
C29_FailureCounter ==
    [][\A n \in ConnNames :
          LET old == connectionStates[n]
              new == connectionStates'[n]
          IN  (old.present /\ new.present) =>
                 IF new.state # old.state
                 THEN /\ new.state = "TRANSIENT_FAILURE" => new.failures = old.failures + 1
                      /\ new.state = "READY" => new.failures = 0
                      /\ new.state \notin {"TRANSIENT_FAILURE", "READY"}
                             => new.failures = old.failures
                 ELSE new.failures = old.failures
      ]_vars

\* C29: one connection has counted three failures and is in TRANSIENT_FAILURE,
\* the other has been seen READY and counts none.
C29_Witness ==
    /\ connectionStates["c1"] = [present |-> TRUE, state |-> "TRANSIENT_FAILURE", failures |-> 3]
    /\ connectionStates["c2"] = [present |-> TRUE, state |-> "READY", failures |-> 0]

\* C30: on every tick of performHealthChecks a reconnection is requested on
\* exactly the connections whose failures exceed 3 and whose channel can be
\* obtained; a connection whose getChannel() throws does not keep the others
\* from being checked.
C30_ReconnectTrigger ==
    [][cmLast'.tick # cmLast.tick =>
          \A n \in ConnNames :
              n \in cmLast'.requested
                  <=> /\ connectionStates[n].present
                      /\ connectionStates[n].failures > 3
                      /\ n \notin broken
      ]_vars

\* C30: a tick has requested a reconnection on c2 (4 failures) while the
\* getChannel() of c1 (4 failures as well) throws.
C30_Witness ==
    /\ cmLast.requested = {"c2"}
    /\ "c1" \in broken
    /\ connectionStates["c1"].failures = 4
    /\ connectionStates["c2"].failures = 4

(***************************************************************************)
(* Specifications.                                                         *)
(***************************************************************************)
\* every service as constructed; RegistryService has finished its load on an
\* absent registry file
Init == RegInit /\ DirInit /\ RxInit /\ DlInit /\ TfInit /\ RtInit /\ BootInit /\ HcInit /\ CmInit /\ LifeInit /\ LoadInit
        /\ UpInit /\ SessInit

\* the tracker's RegistryService
Spec == Init /\ [][RegNext]_vars

\* the tracker's search endpoint over the registry
SpecSearch == Init /\ [][SearchNext]_vars

\* the gRPC directory service
SpecDir == Init /\ [][DirNext]_vars

\* one ReceiveFile call of the peer service
SpecRecv == Init /\ [][RxNext]_vars

\* one download of a file from a peer
SpecDl == Init /\ [][DlNext]_vars

\* one TransferFile call of the peer service
SpecTransfer == Init /\ [][TfNext]_vars

\* one call through withRetry
SpecRetry == Init /\ [][RtNext]_vars

\* one downloadFile call of the peer client, with its retries
SpecDownload == Init /\ [][DownloadNext]_vars

\* the bootstrap service of one peer
SpecBoot == Init /\ [][BootNext]_vars

\* the health check service of one peer
SpecHealth == Init /\ [][HcNext]_vars

\* the connection manager of a gRPC client
SpecConn == Init /\ [][CmNext]_vars

\* uploads through the UploadService, one at a time
SpecUpload == Init /\ [][UpNext]_vars

\* two ReceiveFile calls at once
SpecSessions == Init /\ [][SessNext]_vars

\* the tracker's RegistryService over a restart
SpecLoad == Init /\ [][LoadNext]_vars

\* the connection manager under the event loop's scheduling
SpecConnLive == Init /\ [][CmNext]_vars /\ CmFairness

\* the timers and the shutdown of a peer
SpecLife == Init /\ [][LifeNext]_vars

====
